---- MODULE Spec2Model ----
(***************************************************************************)
(* Model of the grace-unlock core of stat_randomizer_gui.py:               *)
(*   MemoryManager (attach / detach / read_* / write_* / scan_aob /        *)
(*   _manual_scan_aob) and the EldenRingModTool handlers that drive it     *)
(*   (connect_to_game, get_event_flag_base, unlock_selected_graces,        *)
(*   on_closing).                                                          *)
(*                                                                         *)
(* The target process is the environment: which candidate process opens,   *)
(* what its module image holds, what a pointer read returns and which      *)
(* reads / writes fail are chosen with \E inside the actions.              *)
(***************************************************************************)
EXTENDS Integers, Sequences, FiniteSets, TLC

(***************************************************************************)
(* Bounds of the model                                                     *)
(***************************************************************************)
\* unit of the chunk size: the source uses 1024 (CHUNK_SIZE = 4 * 1024 * 1024)
KB == 2
\* number of pymem.Pymem objects that may be created in one run of the tool
MaxOpened == 2
\* how many bytes a module image extends past one chunk
MaxTail == 4
\* longest image whose contents are enumerated exhaustively
MaxSmallLen == 4

(***************************************************************************)
(* Small helpers                                                           *)
(***************************************************************************)
Min(a, b) == IF a < b THEN a ELSE b

Max0(a) == IF a < 0 THEN 0 ELSE a

Pow2(n) == 2 ^ n

\* a slip for BitOr: the bit is added instead of or-ed in
BitOr_Add(a, b) == a + b

\* a | b on non-negative integers, bit by bit
RECURSIVE BitOr(_, _)
BitOr(a, b) ==
  IF a = 0 THEN b
  ELSE IF b = 0 THEN a
  ELSE (IF (a % 2 = 1) \/ (b % 2 = 1) THEN 1 ELSE 0) + 2 * BitOr(a \div 2, b \div 2)

\* is bit `bit` (LSB = bit 0) set in v
BitIsSet(v, bit) == (v \div Pow2(bit)) % 2 = 1

\* the set of bit indexes set in byte v
BitsOf(v) == {k \in 0..7 : BitIsSet(v, k)}

\* s with every element of set S removed, order kept
RECURSIVE SeqMinus(_, _)
SeqMinus(s, S) ==
  IF s = <<>> THEN <<>>
  ELSE IF Head(s) \in S THEN SeqMinus(Tail(s), S)
  ELSE <<Head(s)>> \o SeqMinus(Tail(s), S)

SeqToSet(s) == {s[k] : k \in 1..Len(s)}

(***************************************************************************)
(* Static configuration                                                    *)
(***************************************************************************)
ELDEN_RING_PROCESSES == <<"eldenring.exe", "start_protected_game.exe">>

\* one token of an AOB pattern string: a hex byte, or the wildcard "??"
Tok(b) == [wild |-> FALSE, hex |-> b]
QQ == [wild |-> TRUE, hex |-> 0]

\* "48 8B 3D ?? ?? ?? ?? 48 85 FF ?? ?? 32 C0 E9"
EVENT_FLAG_MAN_AOB ==
  << Tok(72), Tok(139), Tok(61), QQ, QQ, QQ, QQ, Tok(72), Tok(133), Tok(255),
     QQ, QQ, Tok(50), Tok(192), Tok(233) >>

\* GRACES_BY_REGION, every row of it: region -> name -> <<offset, bit>>
GRACES_BY_REGION ==
  ( "Roundtable Hold" :>
      ( "Table of Lost Grace" :> <<2648, 1>> )
  @@ "Stranded Graveyard" :>
      ( "Cave of Knowledge" :> <<2725, 7>>
        @@ "Stranded Graveyard" :> <<2725, 6>> )
  @@ "Limgrave" :>
      ( "The First Step" :> <<3262, 2>>
        @@ "Church of Elleh" :> <<3262, 3>>
        @@ "Artist's Shack (Limgrave)" :> <<3262, 0>>
        @@ "Gatefront" :> <<3263, 0>>
        @@ "Agheel Lake South" :> <<3263, 5>>
        @@ "Agheel Lake North" :> <<3263, 3>>
        @@ "Church of Dragon Communion" :> <<3263, 1>>
        @@ "Fort Haight West" :> <<3263, 6>>
        @@ "Third Church of Marika" :> <<3263, 7>>
        @@ "Seaside Ruins" :> <<3264, 6>>
        @@ "Mistwood Outskirts" :> <<3264, 5>>
        @@ "Murkwater Coast" :> <<3264, 3>>
        @@ "Summonwater Village Outskirts" :> <<3264, 0>>
        @@ "Waypoint Ruins Cellar" :> <<3265, 7>>
        @@ "Stormfoot Catacombs" :> <<2875, 5>>
        @@ "Murkwater Catacombs" :> <<2875, 3>>
        @@ "Groveside Cave" :> <<2887, 0>>
        @@ "Coastal Cave" :> <<2889, 4>>
        @@ "Murkwater Cave" :> <<2887, 3>>
        @@ "Highroad Cave" :> <<2889, 2>>
        @@ "Limgrave Tunnels" :> <<2900, 6>> )
  @@ "Stormhill" :>
      ( "Stormhill Shack" :> <<3262, 1>>
        @@ "Castleward Tunnel" :> <<2625, 5>>
        @@ "Margit, the Fell Omen" :> <<2625, 6>>
        @@ "Warmaster's Shack" :> <<3264, 1>>
        @@ "Saintsbridge" :> <<3264, 2>>
        @@ "Deathtouched Catacombs" :> <<2876, 4>>
        @@ "Limgrave Tower Bridge" :> <<2926, 5>>
        @@ "Divine Tower of Limgrave" :> <<2926, 3>> )
  @@ "Stormveil Castle" :>
      ( "Stormveil Main Gate" :> <<2626, 7>>
        @@ "Gateside Chamber" :> <<2625, 4>>
        @@ "Stormveil Cliffside" :> <<2625, 3>>
        @@ "Rampart Tower" :> <<2625, 2>>
        @@ "Liftside Chamber" :> <<2625, 1>>
        @@ "Secluded Cell" :> <<2625, 0>>
        @@ "Godrick the Grafted" :> <<2625, 7>> )
  @@ "Weeping Peninsula" :>
      ( "Church of Pilgrimage" :> <<3268, 1>>
        @@ "Castle Morne Rampart" :> <<3268, 0>>
        @@ "Tombsward" :> <<3269, 7>>
        @@ "South of the Lookout Tower" :> <<3269, 6>>
        @@ "Ailing Village Outskirts" :> <<3269, 5>>
        @@ "Beside the Crater-Pocked Glade" :> <<3269, 4>>
        @@ "Isolated Merchant's Shack (Limgrave)" :> <<3269, 3>>
        @@ "Fourth Church of Marika" :> <<3270, 5>>
        @@ "Bridge of Sacrifice" :> <<3269, 2>>
        @@ "Castle Morne Lift" :> <<3269, 1>>
        @@ "Behind the Castle" :> <<3269, 0>>
        @@ "Beside the Rampart Gaol" :> <<3270, 7>>
        @@ "Morne Moangrave" :> <<3270, 6>>
        @@ "Impaler's Catacombs" :> <<2875, 6>>
        @@ "Tombsward Catacombs" :> <<2875, 7>>
        @@ "Earthbore Cave" :> <<2887, 2>>
        @@ "Tombsward Cave" :> <<2887, 1>>
        @@ "Morne Tunnel" :> <<2900, 7>> )
  @@ "Liurnia of the Lakes" :>
      ( "Lake-Facing Cliffs" :> <<3275, 7>>
        @@ "Laskyar Ruins" :> <<3275, 5>>
        @@ "Liurnia Lake Shore" :> <<3275, 6>>
        @@ "Academy Gate Town" :> <<3275, 3>>
        @@ "Artist's Shack (Liurnia)" :> <<3277, 6>>
        @@ "Eastern Liurnia Lake Shore" :> <<3277, 0>>
        @@ "Gate Town Bridge" :> <<3277, 1>>
        @@ "Liurnia Highway North" :> <<3277, 2>>
        @@ "Liurnia Highway South" :> <<3280, 3>>
        @@ "Main Academy Gate" :> <<3275, 1>>
        @@ "Scenic Isle" :> <<3275, 4>>
        @@ "South Raya Lucaria Gate" :> <<3275, 2>>
        @@ "Ruined Labyrinth" :> <<3278, 6>>
        @@ "Boilprawn Shack" :> <<3277, 7>>
        @@ "Church of Vows" :> <<3278, 7>>
        @@ "Converted Tower" :> <<3279, 2>>
        @@ "Eastern Tableland" :> <<3279, 5>>
        @@ "Fallen Ruins of the Lake" :> <<3279, 3>>
        @@ "Folly on the Lake" :> <<3277, 4>>
        @@ "Jarburg" :> <<3280, 2>>
        @@ "Mausoleum Compound" :> <<3278, 5>>
        @@ "Ranni's Chamber" :> <<3280, 0>>
        @@ "Revenger's Shack" :> <<3277, 5>>
        @@ "Slumbering Wolf's Shack" :> <<3276, 0>>
        @@ "Village of the Albinaurics" :> <<3277, 3>>
        @@ "Crystalline Woods" :> <<3280, 4>>
        @@ "East Gate Bridge Trestle" :> <<3280, 5>>
        @@ "Foot of the Four Belfries" :> <<3276, 5>>
        @@ "Gate Town North" :> <<3279, 6>>
        @@ "Main Caria Manor Gate" :> <<3276, 1>>
        @@ "Manor Lower Level" :> <<3278, 0>>
        @@ "Manor Upper Level" :> <<3278, 1>>
        @@ "Northern Liurnia Lake Shore" :> <<3276, 3>>
        @@ "Road to the Manor" :> <<3276, 2>>
        @@ "Royal Moongazing Grounds" :> <<3279, 7>>
        @@ "Sorcerer's Isle" :> <<3276, 4>>
        @@ "Temple Quarter" :> <<3280, 6>>
        @@ "The Four Belfries" :> <<3278, 4>>
        @@ "Academy Crystal Cave" :> <<2888, 5>>
        @@ "Behind Caria Manor" :> <<3279, 1>>
        @@ "Black Knife Catacombs" :> <<2875, 2>>
        @@ "Cliffbottom Catacombs" :> <<2875, 1>>
        @@ "Lakeside Crystal Cave" :> <<2888, 6>>
        @@ "Liurnia Tower Bridge" :> <<2927, 2>>
        @@ "Ranni's Rise" :> <<3278, 3>>
        @@ "Ravine-Veiled Village" :> <<3278, 2>>
        @@ "Raya Lucaria Crystal Tunnel" :> <<2900, 5>>
        @@ "Road's End Catacombs" :> <<2875, 4>>
        @@ "Stillwater Cave" :> <<2888, 7>>
        @@ "Study Hall Entrance" :> <<2927, 3>>
        @@ "The Ravine" :> <<3279, 4>>
        @@ "Divine Tower of Liurnia" :> <<2927, 1>> )
  @@ "Bellum Highway" :>
      ( "Bellum Church" :> <<3276, 7>>
        @@ "Church of Inhibition" :> <<3280, 7>>
        @@ "East Raya Lucaria Gate" :> <<3275, 0>>
        @@ "Frenzied Flame Village Outskirts" :> <<3279, 0>>
        @@ "Grand Lift of Dectus" :> <<3276, 6>> )
  @@ "Ruin-Strewn Precipice" :>
      ( "Magma Wyrm" :> <<2987, 3>>
        @@ "Ruin-Strewn Precipice" :> <<2987, 2>>
        @@ "Ruin-Strewn Precipice Overlook" :> <<2987, 1>> )
  @@ "Moonlight Altar" :>
      ( "Altar South" :> <<3281, 3>>
        @@ "Cathedral of Manus Celes" :> <<3281, 4>>
        @@ "Moonlight Altar" :> <<3281, 5>> )
  @@ "Raya Lucaria Academy" :>
      ( "Church of the Cuckoo" :> <<2675, 5>>
        @@ "Debate Parlor" :> <<2675, 6>>
        @@ "Raya Lucaria Grand Library" :> <<2675, 7>>
        @@ "Schoolhouse Classroom" :> <<2675, 4>> )
  @@ "Altus Plateau" :>
      ( "Abandoned Coffin" :> <<3287, 3>>
        @@ "Altus Highway Junction" :> <<3287, 0>>
        @@ "Altus Plateau" :> <<3287, 2>>
        @@ "Bower of Bounty" :> <<3288, 5>>
        @@ "Erdtree-Gazing Hill" :> <<3287, 1>>
        @@ "Forest-Spanning Greatbridge" :> <<3288, 7>>
        @@ "Rampartside Path" :> <<3288, 6>>
        @@ "Road of Iniquity Side Path" :> <<3288, 4>>
        @@ "Shaded Castle Inner Gate" :> <<3290, 6>>
        @@ "Shaded Castle Ramparts" :> <<3290, 7>>
        @@ "Windmill Heights" :> <<3289, 6>>
        @@ "Windmill Village" :> <<3288, 3>>
        @@ "Altus Tunnel" :> <<2900, 2>>
        @@ "Castellan's Hall" :> <<3290, 5>>
        @@ "Old Altus Tunnel" :> <<2900, 3>>
        @@ "Perfumer's Grotto" :> <<2889, 1>>
        @@ "Sage's Cave" :> <<2889, 0>>
        @@ "Sainted Hero's Grave" :> <<2876, 7>>
        @@ "Unsightly Catacombs" :> <<2876, 3>> )
  @@ "Mt. Gelmir" :>
      ( "Bridge of Iniquity" :> <<3293, 1>>
        @@ "Craftsman's Shack" :> <<3294, 3>>
        @@ "First Mt. Gelmir Campsite" :> <<3293, 0>>
        @@ "Gelmir Hero's Grave" :> <<2876, 6>>
        @@ "Ninth Mt. Gelmir Campsite" :> <<3294, 7>>
        @@ "Primeval Sorcerer Azur" :> <<3294, 2>>
        @@ "Road of Iniquity" :> <<3294, 6>>
        @@ "Seethewater Cave" :> <<2888, 4>>
        @@ "Seethewater River" :> <<3294, 5>>
        @@ "Seethewater Terminus" :> <<3294, 4>>
        @@ "Volcano Cave" :> <<2888, 2>>
        @@ "Wyndham Catacombs" :> <<2875, 0>> )
  @@ "Leyndell Royal Capital (Pre-Ash)" :>
      ( "Auriza Side Tomb" :> <<2876, 2>>
        @@ "Auriza Hero's Grave" :> <<2876, 5>>
        @@ "Capital Rampart" :> <<3289, 5>>
        @@ "Divine Tower of West Altus" :> <<2928, 1>>
        @@ "Divine Tower of West Altus: Gate" :> <<2929, 7>>
        @@ "Hermit Merchant's Shack" :> <<3288, 0>>
        @@ "Minor Erdtree Church" :> <<3288, 1>>
        @@ "Outer Wall Battleground" :> <<3289, 7>>
        @@ "Outer Wall Phantom Tree" :> <<3288, 2>>
        @@ "Sealed Tunnel" :> <<2928, 0>> )
  @@ "Volcano Manor" :>
      ( "Abductor Virgin" :> <<2700, 1>>
        @@ "Audience Pathway" :> <<2700, 2>>
        @@ "Guest Hall" :> <<2700, 3>>
        @@ "Prison Town Church" :> <<2700, 4>>
        @@ "Rykard, Lord of Blasphemy" :> <<2700, 7>>
        @@ "Subterranean Inquisition Chamber" :> <<2700, 0>>
        @@ "Temple of Eiglay" :> <<2700, 6>>
        @@ "Volcano Manor" :> <<2700, 5>> )
  @@ "Leyndell Royal Capital" :>
      ( "East Capital Rampart" :> <<2637, 1>>
        @@ "Avenue Balcony" :> <<2638, 7>>
        @@ "Lower Capital Church" :> <<2637, 0>>
        @@ "West Capital Rampart" :> <<2638, 6>>
        @@ "Fortified Manor, First Floor" :> <<2638, 3>>
        @@ "Divine Bridge" :> <<2638, 2>>
        @@ "Erdtree Sanctuary" :> <<2638, 6>>
        @@ "Elden Throne" :> <<2637, 3>>
        @@ "Queen's Bedchamber" :> <<2638, 4>> )
  @@ "Caelid" :>
      ( "Caelem Ruins" :> <<3300, 4>>
        @@ "Caelid Highway South" :> <<3300, 2>>
        @@ "Cathedral of Dragon Communion" :> <<3300, 3>>
        @@ "Chair-Crypt of Sellia" :> <<3301, 0>>
        @@ "Church of the Plague" :> <<3302, 5>>
        @@ "Fort Gael North" :> <<3300, 5>>
        @@ "Rotview Balcony" :> <<3300, 6>>
        @@ "Sellia Backstreets" :> <<3301, 1>>
        @@ "Sellia Under-Stair" :> <<3302, 7>>
        @@ "Smoldering Church" :> <<3300, 7>>
        @@ "Smoldering Wall" :> <<3301, 6>>
        @@ "Southern Aeonia Swamp Bank" :> <<3301, 4>>
        @@ "Abandoned Cave" :> <<2890, 7>>
        @@ "Caelid Catacombs" :> <<2876, 0>>
        @@ "Chamber Outside the Plaza" :> <<3302, 3>>
        @@ "Deep Siofra Well" :> <<3301, 5>>
        @@ "Gael Tunnel" :> <<2900, 0>>
        @@ "Gaol Cave" :> <<2890, 6>>
        @@ "Impassable Greatbridge" :> <<3302, 6>>
        @@ "Minor Erdtree Catacombs" :> <<2876, 1>>
        @@ "Rear Gael Tunnel Entrance" :> <<2907, 6>>
        @@ "Redmane Castle Plaza" :> <<3302, 4>>
        @@ "Sellia Crystal Tunnel" :> <<2901, 7>>
        @@ "Starscourge Radahn" :> <<3302, 1>>
        @@ "War-Dead Catacombs" :> <<2877, 7>> )
  @@ "Swamp of Aeonia" :>
      ( "Aeonia Swamp Shore" :> <<3300, 1>>
        @@ "Astray from Caelid Highway North" :> <<3300, 0>>
        @@ "Heart of Aeonia" :> <<3301, 3>>
        @@ "Inner Aeonia" :> <<3301, 2>> )
  @@ "Greyoll's Dragonbarrow" :>
      ( "Bestial Sanctum" :> <<3306, 1>>
        @@ "Divine Tower of Caelid: Basement" :> <<2930, 7>>
        @@ "Divine Tower of Caelid: Center" :> <<2930, 6>>
        @@ "Dragonbarrow Cave" :> <<2888, 1>>
        @@ "Dragonbarrow Fork" :> <<3306, 3>>
        @@ "Dragonbarrow West" :> <<3306, 5>>
        @@ "Farum Greatbridge" :> <<3307, 7>>
        @@ "Fort Faroth" :> <<3306, 2>>
        @@ "Isolated Divine Tower" :> <<2932, 3>>
        @@ "Isolated Merchant's Shack (Dragonbarrow)" :> <<3306, 4>>
        @@ "Lenne's Rise" :> <<3306, 0>>
        @@ "Sellia Hideaway" :> <<2888, 0>> )
  @@ "Forbidden Lands" :>
      ( "Divine Tower of East Altus" :> <<2931, 4>>
        @@ "Divine Tower of East Altus: Gate" :> <<2931, 5>>
        @@ "Forbidden Lands" :> <<3312, 3>>
        @@ "Grand Lift of Rold" :> <<3312, 1>>
        @@ "Hidden Path to the Haligtree" :> <<2877, 3>> )
  @@ "Mountaintops of the Giants" :>
      ( "Ancient Snow Valley Ruins" :> <<3312, 0>>
        @@ "Castle Sol Main Gate" :> <<3315, 5>>
        @@ "Castle Sol Rooftop" :> <<3315, 3>>
        @@ "Church of the Eclipse" :> <<3315, 4>>
        @@ "First Church of Marika" :> <<3313, 6>>
        @@ "Freezing Lake" :> <<3313, 7>>
        @@ "Snow Valley Ruins Overlook" :> <<3315, 6>>
        @@ "Spiritcaller's Cave" :> <<2890, 5>>
        @@ "Whiteridge Road" :> <<3315, 7>>
        @@ "Zamor Ruins" :> <<3312, 2>> )
  @@ "Flame Peak" :>
      ( "Church of Repose" :> <<3313, 4>>
        @@ "Fire Giant" :> <<3313, 2>>
        @@ "Foot of the Forge" :> <<3313, 3>>
        @@ "Forge of the Giants" :> <<3313, 1>>
        @@ "Giant's Gravepost" :> <<3313, 5>>
        @@ "Giant's Mountaintop Catacombs" :> <<2877, 5>>
        @@ "Giant-Conquering Hero's Grave" :> <<2877, 6>> )
  @@ "Consecrated Snowfield" :>
      ( "Apostate Derelict" :> <<3331, 2>>
        @@ "Cave of the Forlorn" :> <<2889, 7>>
        @@ "Consecrated Snowfield" :> <<3318, 1>>
        @@ "Consecrated Snowfield Catacombs" :> <<2877, 4>>
        @@ "Inner Consecrated Snowfield" :> <<3318, 0>>
        @@ "Ordina, Liturgical Town" :> <<3331, 3>>
        @@ "Yelough Anix Tunnel" :> <<2901, 4>> )
  @@ "Miquella's Haligtree" :>
      ( "Haligtree Canopy" :> <<2688, 5>>
        @@ "Haligtree Promenade" :> <<2688, 6>>
        @@ "Haligtree Town" :> <<2688, 4>>
        @@ "Haligtree Town Plaza" :> <<2688, 3>> )
  @@ "Elphael, Brace of the Haligtree" :>
      ( "Drainage Channel" :> <<2687, 0>>
        @@ "Elphael Inner Wall" :> <<2687, 1>>
        @@ "Haligtree Roots" :> <<2688, 7>>
        @@ "Malenia, Goddess of Rot" :> <<2687, 3>>
        @@ "Prayer Room" :> <<2687, 2>> )
  @@ "Crumbling Farum Azula" :>
      ( "Beside the Great Bridge" :> <<2663, 1>>
        @@ "Crumbling Beast Grave" :> <<2662, 0>>
        @@ "Crumbling Beast Grave Depths" :> <<2663, 7>>
        @@ "Dragon Temple" :> <<2663, 5>>
        @@ "Dragon Temple Altar" :> <<2662, 1>>
        @@ "Dragon Temple Lift" :> <<2663, 3>>
        @@ "Dragon Temple Rooftop" :> <<2663, 2>>
        @@ "Dragon Temple Transept" :> <<2663, 4>>
        @@ "Dragonlord Placidusax" :> <<2662, 2>>
        @@ "Maliketh, the Black Blade" :> <<2662, 3>>
        @@ "Tempest-Facing Balcony" :> <<2663, 6>> )
  @@ "Ainsel River" :>
      ( "Ainsel River Downstream" :> <<2651, 2>>
        @@ "Ainsel River Sluice Gate" :> <<2651, 3>>
        @@ "Ainsel River Well Depths" :> <<2651, 4>>
        @@ "Astel, Naturalborn of the Void" :> <<2655, 7>>
        @@ "Dragonkin Soldier of Nokstella" :> <<2651, 5>> )
  @@ "Ainsel River Main" :>
      ( "Ainsel River Main" :> <<2651, 1>>
        @@ "Nokstella, Eternal City" :> <<2651, 0>>
        @@ "Nokstella Waterfall Basin" :> <<2652, 4>> )
  @@ "Lake of Rot" :>
      ( "Grand Cloister" :> <<2652, 5>>
        @@ "Lake of Rot Shoreside" :> <<2652, 7>> )
  @@ "Nokron, Eternal City" :>
      ( "Nokron, Eternal City" :> <<2658, 0>>
        @@ "Ancestral Woods" :> <<2653, 7>>
        @@ "Aqueduct-Facing Cliffs" :> <<2653, 6>>
        @@ "Great Waterfall Basin" :> <<2652, 3>>
        @@ "Mimic Tear" :> <<2652, 2>>
        @@ "Night's Sacred Ground" :> <<2653, 5>> )
  @@ "Siofra River" :>
      ( "Below the Well" :> <<2653, 4>>
        @@ "Siofra River Bank" :> <<2652, 1>>
        @@ "Siofra River Well Depths" :> <<2658, 1>>
        @@ "Worshippers' Woods" :> <<2652, 0>> )
  @@ "Mohgwyn Palace" :>
      ( "Cocoon of the Empyrean" :> <<2656, 5>>
        @@ "Dynasty Mausoleum Entrance" :> <<2656, 3>>
        @@ "Dynasty Mausoleum Midpoint" :> <<2656, 2>>
        @@ "Palace Approach Ledge-Road" :> <<2656, 4>> )
  @@ "Deeproot Depths" :>
      ( "Across the Roots" :> <<2654, 4>>
        @@ "Deeproot Depths" :> <<2654, 6>>
        @@ "Great Waterfall Crest" :> <<2654, 7>>
        @@ "Prince of Death's Throne" :> <<2653, 1>>
        @@ "Root-Facing Cliffs" :> <<2653, 0>>
        @@ "The Nameless Eternal City" :> <<2654, 5>> )
  @@ "Subterranean Shunning-Grounds" :>
      ( "Cathedral of the Forsaken" :> <<2937, 3>>
        @@ "Forsaken Depths" :> <<2937, 1>>
        @@ "Frenzied Flame Proscription" :> <<2938, 7>>
        @@ "Leyndell Catacombs" :> <<2937, 0>>
        @@ "Underground Roadside" :> <<2937, 2>> )
  @@ "Leyndell, Ashen Capital" :>
      ( "Divine Bridge (Ash)" :> <<2640, 2>>
        @@ "East Capital Rampart (Ash)" :> <<2640, 5>>
        @@ "Elden Throne (Ash)" :> <<2640, 7>>
        @@ "Erdtree Sanctuary (Ash)" :> <<2640, 6>>
        @@ "Leyndell, Capital of Ash" :> <<2640, 4>>
        @@ "Queen's Bedchamber (Ash)" :> <<2640, 3>> )
  @@ "Stone Platform" :>
      ( "Fractured Marika" :> <<2737, 3>> )
  @@ "Gravesite Plain" :>
      ( "Gravesite Plain" :> <<3350, 7>>
        @@ "Scorched Ruins" :> <<3350, 6>>
        @@ "Three-Path Cross" :> <<3350, 5>>
        @@ "Greatbridge, North" :> <<3350, 2>>
        @@ "Main Gate Cross" :> <<3350, 4>>
        @@ "Cliffroad Terminus" :> <<3350, 3>>
        @@ "Castle Front" :> <<3351, 2>>
        @@ "Pillar Path Cross" :> <<3351, 5>>
        @@ "Pillar Path Waypoint" :> <<3351, 4>>
        @@ "Ellac River Cave" :> <<3351, 3>>
        @@ "Ellac River Downstream" :> <<3353, 1>>
        @@ "Fog Rift Catacombs" :> <<3000, 7>>
        @@ "Belurat Gaol" :> <<3012, 3>>
        @@ "Ruined Forge Lava Intake" :> <<3025, 7>>
        @@ "Dragon's Pit" :> <<3037, 2>>
        @@ "Dragon's Pit Terminus" :> <<3043, 0>> )
  @@ "Castle Ensis" :>
      ( "Castle Ensis Checkpoint" :> <<3352, 2>>
        @@ "Castle Lord's Chamber" :> <<3352, 1>>
        @@ "Ensis Moongazing Grounds" :> <<3352, 0>> )
  @@ "Cerulean Coast" :>
      ( "Cerulean Coast" :> <<3353, 0>>
        @@ "Cerulean Coast West" :> <<3354, 7>>
        @@ "Cerulean Coast Cross" :> <<3354, 4>>
        @@ "The Fissure" :> <<3354, 6>>
        @@ "Finger Ruins of Rhia" :> <<3354, 5>> )
  @@ "Charo's Hidden Grave" :>
      ( "Charo's Hidden Grave" :> <<3355, 6>>
        @@ "Lamenter's Gaol" :> <<3012, 1>> )
  @@ "Stone Coffin Fissure" :>
      ( "Stone Coffin Fissure" :> <<2775, 6>>
        @@ "Fissure Cross" :> <<2775, 5>>
        @@ "Fissure Waypoint" :> <<2775, 4>>
        @@ "Fissure Depths" :> <<2775, 3>>
        @@ "Garden of Deep Purple" :> <<2775, 7>> )
  @@ "Foot of the Jagged Peak" :>
      ( "Grand Altar of Dragon Communion" :> <<3355, 7>>
        @@ "Foot of the Jagged Peak" :> <<3356, 5>> )
  @@ "Jagged Peak" :>
      ( "Jagged Peak Mountainside" :> <<3356, 4>>
        @@ "Jagged Peak Summit" :> <<3356, 3>>
        @@ "Rest of the Dead Dragon" :> <<3356, 2>> )
  @@ "Belurat, Tower Settlement" :>
      ( "Belurat, Tower Settlement" :> <<2750, 6>>
        @@ "Small Private Altar" :> <<2750, 5>>
        @@ "Stagefront" :> <<2750, 4>>
        @@ "Theatre of the Divine Beast" :> <<2750, 7>> )
  @@ "Enir-Ilim" :>
      ( "Enir-Ilim Outer Wall" :> <<2751, 3>>
        @@ "First Rise" :> <<2751, 2>>
        @@ "Spiral Rise" :> <<2751, 1>>
        @@ "Cleansing Chamber Anteroom" :> <<2751, 0>>
        @@ "Divine Gate Front Staircase" :> <<2752, 7>>
        @@ "Gate of Divinity" :> <<2751, 5>> )
  @@ "Ancient Ruins of Rauh" :>
      ( "Viaduct Minor Tower" :> <<3367, 3>>
        @@ "Rauh Ancient Ruins, East" :> <<3367, 2>>
        @@ "Rauh Ancient Ruins, West" :> <<3367, 1>>
        @@ "Ancient Ruins Grand Stairway" :> <<3368, 7>>
        @@ "Church of the Bud, Main Entrance" :> <<3367, 0>>
        @@ "Church of the Bud" :> <<3368, 6>>
        @@ "Rivermouth Cave" :> <<3037, 3>> )
  @@ "Rauh Base" :>
      ( "Ancient Ruins Base" :> <<3364, 7>>
        @@ "Temple Town Ruins" :> <<3364, 6>>
        @@ "Ravine North" :> <<3364, 5>>
        @@ "Scorpion River Catacombs" :> <<3000, 6>>
        @@ "Taylew's Ruined Forge" :> <<3025, 4>> )
  @@ "Scadu Altus" :>
      ( "Highroad Cross" :> <<3362, 3>>
        @@ "Scadu Altus, West" :> <<3363, 4>>
        @@ "Moorth Ruins" :> <<3362, 1>>
        @@ "Moorth Highway, South" :> <<3363, 3>>
        @@ "Fort of Reprimand" :> <<3363, 2>>
        @@ "Behind the Fort of Reprimand" :> <<3363, 1>>
        @@ "Scaduview Cross" :> <<3363, 0>>
        @@ "Bonny Village" :> <<3362, 0>>
        @@ "Bridge Leading to the Village" :> <<3363, 7>>
        @@ "Church District Highroad" :> <<3363, 6>>
        @@ "Cathedral of Manus Metyr" :> <<3363, 5>>
        @@ "Finger Birthing Grounds" :> <<2812, 3>>
        @@ "Castle Watering Hole" :> <<3364, 3>>
        @@ "Recluses' River Upstream" :> <<3364, 2>>
        @@ "Recluses' River Downstream" :> <<3364, 1>>
        @@ "Darklight Catacombs" :> <<3000, 5>>
        @@ "Bonny Gaol" :> <<3012, 2>>
        @@ "Ruined Forge of Starfall Past" :> <<3025, 5>> )
  @@ "Abyssal Woods" :>
      ( "Abyssal Woods" :> <<3357, 3>>
        @@ "Forsaken Graveyard" :> <<3357, 1>>
        @@ "Woodland Trail" :> <<3357, 0>>
        @@ "Church Ruins" :> <<3358, 7>>
        @@ "Divided Falls" :> <<3357, 2>> )
  @@ "Midra's Manse" :>
      ( "Manse Hall" :> <<2850, 6>>
        @@ "Midra's Library" :> <<2850, 5>>
        @@ "Second Floor Chamber" :> <<2850, 4>>
        @@ "Discussion Chamber" :> <<2850, 7>> )
  @@ "Shadow Keep" :>
      ( "Shadow Keep Main Gate" :> <<2762, 1>>
        @@ "Main Gate Plaza" :> <<2762, 2>> )
  @@ "Shadow Keep, Church District" :>
      ( "Church District Entrance" :> <<2763, 5>>
        @@ "Sunken Chapel" :> <<2763, 4>>
        @@ "Tree-Worship Passage" :> <<2763, 3>>
        @@ "Tree-Worship Sanctum" :> <<2763, 2>> )
  @@ "Specimen Storehouse" :>
      ( "Storehouse, First Floor" :> <<2763, 0>>
        @@ "Storehouse, Fourth Floor" :> <<2764, 7>>
        @@ "Storehouse, Seventh Floor" :> <<2764, 6>>
        @@ "Dark Chamber Entrance" :> <<2764, 5>>
        @@ "Storehouse, Back Section" :> <<2764, 3>>
        @@ "Storehouse, Loft" :> <<2764, 2>>
        @@ "West Rampart" :> <<2765, 7>>
        @@ "Messmer's Dark Chamber" :> <<2763, 1>> )
  @@ "Scaduview" :>
      ( "Scaduview" :> <<3366, 5>>
        @@ "Shadow Keep, Back Gate" :> <<3366, 4>>
        @@ "Scadutree Base" :> <<3370, 7>>
        @@ "Hinterland" :> <<3366, 0>>
        @@ "Hinterland Bridge" :> <<3367, 6>>
        @@ "Fingerstone Hill" :> <<3367, 7>> ) )

\* the regions in the order the dict literal lists them
RegionOrder ==
  << "Roundtable Hold", "Stranded Graveyard", "Limgrave", "Stormhill",
     "Stormveil Castle", "Weeping Peninsula", "Liurnia of the Lakes",
     "Bellum Highway", "Ruin-Strewn Precipice", "Moonlight Altar",
     "Raya Lucaria Academy", "Altus Plateau", "Mt. Gelmir",
     "Leyndell Royal Capital (Pre-Ash)", "Volcano Manor",
     "Leyndell Royal Capital", "Caelid", "Swamp of Aeonia",
     "Greyoll's Dragonbarrow", "Forbidden Lands",
     "Mountaintops of the Giants", "Flame Peak", "Consecrated Snowfield",
     "Miquella's Haligtree", "Elphael, Brace of the Haligtree",
     "Crumbling Farum Azula", "Ainsel River", "Ainsel River Main",
     "Lake of Rot", "Nokron, Eternal City", "Siofra River", "Mohgwyn Palace",
     "Deeproot Depths", "Subterranean Shunning-Grounds",
     "Leyndell, Ashen Capital", "Stone Platform", "Gravesite Plain",
     "Castle Ensis", "Cerulean Coast", "Charo's Hidden Grave",
     "Stone Coffin Fissure", "Foot of the Jagged Peak", "Jagged Peak",
     "Belurat, Tower Settlement", "Enir-Ilim", "Ancient Ruins of Rauh",
     "Rauh Base", "Scadu Altus", "Abyssal Woods", "Midra's Manse",
     "Shadow Keep", "Shadow Keep, Church District", "Specimen Storehouse",
     "Scaduview" >>

Regions == DOMAIN GRACES_BY_REGION

\* the keys the loop `for region, graces in GRACES_BY_REGION.items()` has
\* put into KNOWN_GRACES after the first k regions
NamesUpTo(k) == UNION { DOMAIN GRACES_BY_REGION[RegionOrder[j]] : j \in 1..k }

\* dict.update replaces the entry of a key it meets again: the entry of n
\* after k regions is the one of the last region that lists n
LastRegionWith(n, k) ==
  CHOOSE j \in 1..k :
    /\ n \in DOMAIN GRACES_BY_REGION[RegionOrder[j]]
    /\ \A i \in (j + 1)..k : n \notin DOMAIN GRACES_BY_REGION[RegionOrder[i]]

\* a slip for KNOWN_GRACES: the loop stops one region early
KNOWN_GRACES_SkipLast ==
  [ n \in NamesUpTo(Len(RegionOrder) - 1) |->
      GRACES_BY_REGION[RegionOrder[LastRegionWith(n, Len(RegionOrder) - 1)]][n] ]

\* KNOWN_GRACES: the regions' tables flattened by dict.update
KNOWN_GRACES ==
  [ n \in NamesUpTo(Len(RegionOrder)) |->
      GRACES_BY_REGION[RegionOrder[LastRegionWith(n, Len(RegionOrder))]][n] ]

\* self.grace_checkboxes in iteration order (regions in table order, the
\* names of a region sorted); the model keeps three of the checkboxes
grace_checkboxes ==
  << "Church of Elleh", "The First Step", "West Capital Rampart" >>

\* the names of the checkboxes kept
GraceNames == SeqToSet(grace_checkboxes)


(***************************************************************************)
(* Values supplied by the target process                                   *)
(***************************************************************************)
\* module.lpBaseOfDll of the target's main module
ModuleBases == {4096}

\* pm.process_id of the process opened under the i-th candidate name
Pid(i) == 100 + i

\* the object the anchor points to, and the structure base stored in it
Ptr1 == 20000
FlagBase == 30000

\* addresses of the flag bytes of the registry, relative to FlagBase
FlagAddrs == {FlagBase + KNOWN_GRACES[n][1] : n \in GraceNames}

\* values a flag byte may hold when the tool starts
InitBytes == {0, 129}

(***************************************************************************)
(* State                                                                   *)
(***************************************************************************)
VARIABLES
  PYMEM_AVAILABLE,  \* module-level flag set by the import of pymem
  memory,           \* the MemoryManager object: pm, module_base, module_size,
                    \*   process_id, process_name, last_error
  opened,           \* number of pymem.Pymem objects created so far
  image,            \* bytes of the module of the process pm is attached to
  mem,              \* the target's flag bytes, by address
  event_flag_man,   \* EldenRingModTool.event_flag_man (anchor, 0 = none)
  efm_pm,           \* the pm object that was attached when event_flag_man was scanned
  checked,          \* names whose grace_checkboxes variable is True
  pc,               \* where the UI thread is: "idle" (in the main loop),
                    \*   "manual" (inside the loop of _manual_scan_aob),
                    \*   "dialog" (inside a modal messagebox call), "closed"
  caller,           \* who called scan_aob: "connect" or "scan"
  pattern,          \* arguments of the running / last scan_aob call
  rel_offset,
  additional,
  offset,           \* local `offset` of _manual_scan_aob
  chunk_bytes,      \* local `chunk_bytes` of _manual_scan_aob: the last chunk read
  read_failed,      \* some chunk read of the running / last manual scan failed
  strategy,         \* which strategy the last scan_aob call ended in:
                    \*   "pymem" or "manual" ("" = no call)
  pattern_address,  \* address the last scan found the pattern at (-1 = none)
  scan_ret,         \* return value of the last scan_aob call (-1 = running)
  attach_ret,       \* return value of the last attach call ("none" before any)
  derefs,           \* read_int64 calls of the running handler: [addr, value]
  reads,            \* read_byte calls of the running handler: [name, addr, ok]
  writes,           \* write_byte calls of the running handler: [name, addr, value,
                    \*   ok]; ok: the system call succeeded
  unlocked,         \* the local list `unlocked` of unlock_selected_graces
  message,          \* the message box the running handler shows ("" = none)
  handles,          \* the pymem.Pymem objects whose process handle is open:
                    \*   created and not yet closed by close_process
  accel,            \* how the try block of the last direct scan_aob call ended:
                    \*   "raised" or "returned" ("" = it was not entered)
  last_call,        \* the last call made on the MemoryManager directly: its name,
                    \*   the manager before it, what it met and what it returned
  grace_idx,        \* position of the for loop of unlock_selected_graces in
                    \*   grace_checkboxes, when the loop is followed step by step
  loop_flag_base,   \* local `flag_base` of unlock_selected_graces
  loop_current,     \* local `current`: the value read_byte returned
  at_read,          \* the byte the target held when read_byte was called
  preset_table,     \* the preset table the tool was started with
  preset_var,       \* self.preset_var: the preset chosen in the combobox
  not_found,        \* local `not_found` of apply_grace_preset
  resume,           \* what the running handler does once its message box is
                    \*   dismissed ("" = it returns)
  fs,               \* the files process_regulation works on: the regulation
                    \*   file, its backup, the exported CSV, the work directory
  run,              \* what the last process_regulation call returned and met
  first_reg,        \* the regulation file as it was before the first run that
                    \*   reached the injection step
  rng,              \* state of the process-wide generator of module random
  worker,           \* the worker thread started by "Randomize Stats!": where it
                    \*   is, its seed and the all_stats it is building
  uithread,         \* the frame of randomize_stats(seed) running on the UI thread
  randomize_btn,    \* state of the button "Randomize Stats!"
  preview,          \* the stats the preview pane shows, with their seed
  runs              \* how many worker threads have been started

mmvars == << PYMEM_AVAILABLE, memory, opened, image, handles >>
scanvars == << caller, pattern, rel_offset, additional, offset, chunk_bytes, read_failed,
               strategy, pattern_address, scan_ret, accel >>
guivars == << event_flag_man, efm_pm, checked, attach_ret >>
logvars == << derefs, reads, writes, unlocked, message >>
loopvars == << grace_idx, loop_flag_base, loop_current, at_read >>
presetvars == << preset_table, preset_var, not_found, resume >>
statvars == << fs, run, first_reg, rng, worker, uithread, randomize_btn, preview, runs >>
vars == << mmvars, scanvars, guivars, logvars, loopvars, presetvars, statvars, last_call,
          mem, pc >>

(***************************************************************************)
(* MemoryManager                                                           *)
(***************************************************************************)
\* MemoryManager.__init__
NewMemoryManager ==
  [ pm |-> 0, module_base |-> 0, module_size |-> 0, process_id |-> 0,
    process_name |-> "", last_error |-> "" ]

is_attached(m) == m.pm # 0

\* a slip for detach: a manager that is not attached is reported as an error
detach_Strict(m) ==
  IF m.pm = 0 THEN [ m EXCEPT !.last_error = "Not attached" ]
  ELSE [ m EXCEPT !.pm = 0, !.module_base = 0, !.module_size = 0,
                  !.process_id = 0, !.process_name = "" ]

\* MemoryManager.detach
detach(m) ==
  [ m EXCEPT !.pm = 0, !.module_base = 0, !.module_size = 0,
             !.process_id = 0, !.process_name = "" ]

\* the handles left open by detach: close_process is called when pm is set
detach_handles(hs, m) == IF m.pm # 0 THEN hs \ {m.pm} ELSE hs

\* what may happen to one candidate name inside the loop of attach
AttachOutcomes ==
  { "NotFound",      \* pymem.Pymem raises ProcessNotFound
    "Denied",        \* pymem.Pymem raises CouldNotOpenProcess
    "Error",         \* pymem.Pymem raises another exception
    "NoModule",      \* process opened, module_from_name returns None
    "ModuleError",   \* process opened, module_from_name raises
    "Ok" }           \* process opened and module found

\* a slip for CandidateNames: the preferred name is put last
CandidateNames_PreferredLast(process_name) ==
  IF process_name # "" THEN ELDEN_RING_PROCESSES \o <<process_name>>
  ELSE ELDEN_RING_PROCESSES

\* the list process_names built by attach
CandidateNames(process_name) ==
  IF process_name # "" THEN <<process_name>> \o ELDEN_RING_PROCESSES
  ELSE ELDEN_RING_PROCESSES

\* a slip for AttachLoop: CouldNotOpenProcess is handled like the other
\* exceptions, the loop goes on to the next candidate
RECURSIVE AttachLoop_DeniedContinues(_, _, _, _, _, _)
AttachLoop_DeniedContinues(st, names, i, out, base, img) ==
  IF i > Len(names)
  THEN [ st EXCEPT !.m.last_error = "Process not found", !.ret = FALSE ]
  ELSE
    LET name == names[i]
        o == out[i]
        tr == [ st EXCEPT !.tried = Append(st.tried, name) ]
        op == [ tr EXCEPT !.m.pm = st.opened + 1, !.opened = st.opened + 1,
                          !.handles = st.handles \cup {st.opened + 1},
                          !.m.process_name = name, !.m.process_id = Pid(i) ]
    IN  CASE o = "NotFound" -> AttachLoop_DeniedContinues(tr, names, i + 1, out, base, img)
          [] o = "Denied" ->
               AttachLoop_DeniedContinues(
                 [tr EXCEPT !.m.last_error = "Could not open process"],
                 names, i + 1, out, base, img)
          [] o = "Error" ->
               AttachLoop_DeniedContinues([tr EXCEPT !.m.last_error = "Error attaching"],
                          names, i + 1, out, base, img)
          [] o = "NoModule" ->
               AttachLoop_DeniedContinues([op EXCEPT !.m.last_error = "Could not get module info"],
                          names, i + 1, out, base, img)
          [] o = "ModuleError" ->
               AttachLoop_DeniedContinues([op EXCEPT !.m.last_error = "Error attaching"],
                          names, i + 1, out, base, img)
          [] OTHER ->
               [ op EXCEPT !.m.module_base = base, !.m.module_size = Len(img),
                           !.image = img, !.ret = TRUE ]

\* the for loop of attach from candidate i on;
\* st = [m, opened, ret, image, handles, tried]: the manager, the number of
\* Pymem objects created, the return value, the image of the module found,
\* the open handles, and the names pymem.Pymem was called with so far
RECURSIVE AttachLoop(_, _, _, _, _, _)
AttachLoop(st, names, i, out, base, img) ==
  IF i > Len(names)
  THEN [ st EXCEPT !.m.last_error = "Process not found", !.ret = FALSE ]
  ELSE
    LET name == names[i]
        o == out[i]
        tr == [ st EXCEPT !.tried = Append(st.tried, name) ]
        op == [ tr EXCEPT !.m.pm = st.opened + 1, !.opened = st.opened + 1,
                          !.handles = st.handles \cup {st.opened + 1},
                          !.m.process_name = name, !.m.process_id = Pid(i) ]
    IN  CASE o = "NotFound" -> AttachLoop(tr, names, i + 1, out, base, img)
          [] o = "Denied" ->
               [ tr EXCEPT !.m.last_error = "Could not open process", !.ret = FALSE ]
          [] o = "Error" ->
               AttachLoop([tr EXCEPT !.m.last_error = "Error attaching"],
                          names, i + 1, out, base, img)
          [] o = "NoModule" ->
               AttachLoop([op EXCEPT !.m.last_error = "Could not get module info"],
                          names, i + 1, out, base, img)
          [] o = "ModuleError" ->
               AttachLoop([op EXCEPT !.m.last_error = "Error attaching"],
                          names, i + 1, out, base, img)
          [] OTHER ->
               [ op EXCEPT !.m.module_base = base, !.m.module_size = Len(img),
                           !.image = img, !.ret = TRUE ]

\* MemoryManager.attach: the result is [m, opened, ret, image, handles, tried]
attach(m, avail, cnt, cur, hs, process_name, out, base, img) ==
  IF ~avail
  THEN [ m |-> [m EXCEPT !.last_error = "pymem not installed"],
         opened |-> cnt, ret |-> FALSE, image |-> cur, handles |-> hs,
         tried |-> << >> ]
  ELSE AttachLoop([ m |-> IF is_attached(m) THEN detach(m) ELSE m,
                    opened |-> cnt, ret |-> FALSE, image |-> << >>,
                    handles |-> IF is_attached(m) THEN detach_handles(hs, m) ELSE hs,
                    tried |-> << >> ],
                  CandidateNames(process_name), 1, out, base, img)

\* what a read_int64 of the target may meet: the read fails, or it returns
\* the value stored there
ReadFail == [ ok |-> FALSE, value |-> 0 ]
Stored(v) == [ ok |-> TRUE, value |-> v ]

\* MemoryManager.read_int64: e is what the read meets
read_int64(m, e) == IF m.pm = 0 \/ ~e.ok THEN 0 ELSE e.value

\* MemoryManager.read_byte
read_byte(m, v, ok) == IF m.pm = 0 \/ ~ok THEN 0 ELSE v

\* MemoryManager.read_int32
read_int32(m, e) == IF m.pm = 0 \/ ~e.ok THEN 0 ELSE e.value

\* MemoryManager.write_byte: the byte stored and the value returned
write_byte(m, old, value, ok) ==
  IF m.pm = 0 \/ ~ok THEN [ ret |-> FALSE, byte |-> old ]
  ELSE [ ret |-> TRUE, byte |-> value % 256 ]

\* MemoryManager.write_bytes: the bytes stored and the value returned
write_bytes(m, old, data, ok) ==
  IF m.pm = 0 \/ ~ok THEN [ ret |-> FALSE, bytes |-> old ]
  ELSE [ ret |-> TRUE, bytes |-> data ]

\* the manager after write_byte / write_bytes: the except clause sets last_error
write_error(m, ok) ==
  IF m.pm = 0 \/ ok THEN m ELSE [m EXCEPT !.last_error = "Write failed"]

\* MemoryManager.read_bytes over the module image img: the bytes returned
\* (b'' on failure) and the manager with last_error set.  A range that leaves
\* the image is unmapped, so the read of it fails.
read_bytes(m, img, address, size, ok) ==
  LET lo == address - m.module_base
  IN  IF m.pm = 0 THEN [ bytes |-> <<>>, m |-> m ]
      ELSE IF ~ok \/ lo < 0 \/ lo + size > Len(img)
      THEN [ bytes |-> <<>>, m |-> [m EXCEPT !.last_error = "Read failed"] ]
      ELSE [ bytes |-> SubSeq(img, lo + 1, lo + size), m |-> m ]


(***************************************************************************)
(* SignatureScanner: scan_aob and _manual_scan_aob                         *)
(***************************************************************************)
CHUNK_SIZE == 4 * KB * KB

\* the parse loop of _manual_scan_aob: pattern_bytes and mask
ParsePattern(pat) ==
  [ pattern_bytes |-> [k \in 1..Len(pat) |-> IF pat[k].wild THEN 0 ELSE pat[k].hex],
    mask |-> [k \in 1..Len(pat) |-> ~pat[k].wild] ]

\* a slip for MatchAt: the mask is not consulted, wildcards compare as 0
MatchAt_NoMask(chunk, i, pattern_bytes, mask) ==
  \A j \in 0..(Len(pattern_bytes) - 1) :
     chunk[i + j + 1] = pattern_bytes[j + 1]

\* the inner j loop: does the pattern match the chunk at index i (0-based)
MatchAt(chunk, i, pattern_bytes, mask) ==
  \A j \in 0..(Len(pattern_bytes) - 1) :
     ~(mask[j + 1] /\ chunk[i + j + 1] # pattern_bytes[j + 1])

\* the i loop over range(search_end): the first i that matches, or -1
RECURSIVE SearchFrom(_, _, _, _, _)
SearchFrom(chunk, i, search_end, pattern_bytes, mask) ==
  IF i >= search_end THEN -1
  ELSE IF MatchAt(chunk, i, pattern_bytes, mask) THEN i
  ELSE SearchFrom(chunk, i + 1, search_end, pattern_bytes, mask)

SearchChunk(chunk, pattern_bytes, mask) ==
  SearchFrom(chunk, 0, Len(chunk) - Len(pattern_bytes) + 1,
             pattern_bytes, mask)

\* a slip for UnpackInt32LE: the bytes are taken big-endian
UnpackInt32BE(b) ==
  LET top == IF b[1] >= 128 THEN b[1] - 256 ELSE b[1]
  IN  b[4] + 256 * b[3] + 65536 * b[2] + 16777216 * top

\* struct.unpack('<i', b)[0] and pm.read_int: 4 bytes, little-endian, signed
\* (the top byte carries the sign: two's complement)
UnpackInt32LE(b) ==
  LET top == IF b[4] >= 128 THEN b[4] - 256 ELSE b[4]
  IN  b[1] + 256 * b[2] + 65536 * b[3] + 16777216 * top

\* the Python slice s[lo:hi] (0-based, clamped to the sequence)
Slice(s, lo, hi) == SubSeq(s, lo + 1, Min(hi, Len(s)))

\* a slip for Overlap: consecutive chunks do not overlap
Overlap_None(pattern_len) == 0

\* overlap = pattern_len - 1
Overlap(pattern_len) == pattern_len - 1

\* one iteration of the while loop of _manual_scan_aob, or its exit.
\* Result: done (the function returned), ret, offset, chunk (the bytes read),
\* pattern_address, m.
ManualIter(m, img, pat, rel, add, off, ok) ==
  LET pp == ParsePattern(pat)
      pattern_len == Len(pp.pattern_bytes)
      overlap == Overlap(pattern_len)
      remaining == m.module_size - off
      current_chunk_size == Min(CHUNK_SIZE, remaining)
      rd == read_bytes(m, img, m.module_base + off, current_chunk_size, ok)
      chunk == rd.bytes
      i == SearchChunk(chunk, pp.pattern_bytes, pp.mask)
      pattern_addr == m.module_base + off + i
      relative_offset_bytes == Slice(chunk, i + rel, i + rel + 4)
      next == [ done |-> FALSE, ret |-> -1, pattern_address |-> -1, m |-> rd.m,
                chunk |-> chunk, offset |-> off + current_chunk_size - overlap ]
  IN  IF ~(off < m.module_size)
      THEN [ done |-> TRUE, ret |-> 0, pattern_address |-> -1, offset |-> off,
             chunk |-> <<>>,
             m |-> [m EXCEPT !.last_error = "Pattern not found in module memory"] ]
      ELSE IF chunk = <<>> \/ Len(chunk) < pattern_len THEN next
      ELSE IF i = -1 THEN next
      ELSE IF Len(relative_offset_bytes) # 4
      THEN \* struct.error, caught by the except clause
           [ done |-> TRUE, ret |-> 0, pattern_address |-> pattern_addr, offset |-> off,
             chunk |-> chunk,
             m |-> [rd.m EXCEPT !.last_error = "Manual scan failed"] ]
      ELSE [ done |-> TRUE, pattern_address |-> pattern_addr, offset |-> off, m |-> rd.m,
             chunk |-> chunk,
             ret |-> pattern_addr + add + UnpackInt32LE(relative_offset_bytes) ]

\* pymem.pattern.pattern_scan_module over the module: the address of the
\* first match, or None (0)
pattern_scan_module(m, img, pat) ==
  LET pp == ParsePattern(pat)
      i == SearchChunk(img, pp.pattern_bytes, pp.mask)
  IN  IF i = -1 THEN 0 ELSE m.module_base + i

\* what the pymem calls of scan_aob may do
AccelOutcomes ==
  { "raise",       \* pattern_scan_module / module_from_name raises
    "read_raise",  \* the pattern scan returns, pm.read_int raises
    "ok" }         \* both calls return

\* a slip for ScanEntry: an exception of the pymem calls ends the scan with
\* a failure instead of entering the manual scan
ScanEntry_NoFallback(m, img, pat, rel, add, a) ==
  LET result == pattern_scan_module(m, img, pat)
      lo == result + rel - m.module_base
      failed == [ manual |-> FALSE, ret |-> 0, pattern_address |-> -1,
                  m |-> [m EXCEPT !.last_error = "Pattern scan failed"] ]
  IN  IF m.pm = 0 \/ m.module_size = 0
      THEN [ manual |-> FALSE, ret |-> 0, pattern_address |-> -1,
             m |-> [m EXCEPT !.last_error = "Cannot scan"] ]
      ELSE IF a = "raise" THEN failed
      ELSE IF result # 0
      THEN IF a = "read_raise" \/ lo < 0 \/ lo + 4 > Len(img) THEN failed
           ELSE [ manual |-> FALSE, pattern_address |-> result, m |-> m,
                  ret |-> result + add + UnpackInt32LE(SubSeq(img, lo + 1, lo + 4)) ]
      ELSE [ manual |-> FALSE, ret |-> 0, pattern_address |-> -1,
             m |-> [m EXCEPT !.last_error = "Pattern not found in module memory"] ]

\* scan_aob up to its return or its call of _manual_scan_aob.
\* Result: manual (the fallback was entered), ret, pattern_address, m.
ScanEntry(m, img, pat, rel, add, a) ==
  LET result == pattern_scan_module(m, img, pat)
      lo == result + rel - m.module_base
      fallback == [ manual |-> TRUE, ret |-> -1, pattern_address |-> -1,
                    m |-> [m EXCEPT !.last_error = "Pattern scan failed"] ]
  IN  IF m.pm = 0 \/ m.module_size = 0
      THEN [ manual |-> FALSE, ret |-> 0, pattern_address |-> -1,
             m |-> [m EXCEPT !.last_error = "Cannot scan"] ]
      ELSE IF a = "raise" THEN fallback
      ELSE IF result # 0
      THEN IF a = "read_raise" \/ lo < 0 \/ lo + 4 > Len(img) THEN fallback
           ELSE [ manual |-> FALSE, pattern_address |-> result, m |-> m,
                  ret |-> result + add + UnpackInt32LE(SubSeq(img, lo + 1, lo + 4)) ]
      ELSE [ manual |-> FALSE, ret |-> 0, pattern_address |-> -1,
             m |-> [m EXCEPT !.last_error = "Pattern not found in module memory"] ]


(***************************************************************************)
(* Module images and scan inputs the environment may supply                *)
(***************************************************************************)
\* n filler bytes (0x90)
Fill(n) == [k \in 1..n |-> 144]

\* the bytes of one occurrence of pat: the wildcard positions take the bytes
\* of w in turn
Instance(pat, w) ==
  [k \in 1..Len(pat) |->
     IF pat[k].wild
     THEN w[(Cardinality({j \in 1..(k - 1) : pat[j].wild}) % Len(w)) + 1]
     ELSE pat[k].hex]

\* img with the bytes inst written at offset p (0-based)
Stamp(img, p, inst) ==
  [k \in 1..Len(img) |-> IF k > p /\ k <= p + Len(inst) THEN inst[k - p] ELSE img[k]]

\* bytes for the wildcard positions: the rel32 values 0x100 and -16
WildFills == { <<0, 1, 0, 0>>, <<240, 255, 255, 255>> }

\* length of the images that need more than one chunk
LongLen == CHUNK_SIZE + MaxTail

\* a six-token pattern with a rel32 in the middle
ShortRelPattern == << Tok(72), QQ, QQ, QQ, QQ, Tok(139) >>

LongPatterns == { EVENT_FLAG_MAN_AOB, ShortRelPattern }

\* images longer than a chunk: filler with up to two occurrences of pat
LongImages(pat) ==
  { Stamp(Stamp(Fill(LongLen), p1, Instance(pat, w)), p2, Instance(pat, w)) :
      p1 \in 0..(LongLen - Len(pat)), p2 \in 0..(LongLen - Len(pat)), w \in WildFills }
  \cup { Fill(LongLen) }

\* every pattern of one or two tokens over {48, 00, ??}
SmallTokens == { Tok(72), Tok(0), QQ }
SmallPatterns ==
  { <<t>> : t \in SmallTokens } \cup { <<t, u>> : t \in SmallTokens, u \in SmallTokens }

\* every image of 1..MaxSmallLen bytes over {0x00, 0x48}
SmallImages == UNION { [1..n -> {0, 72}] : n \in 1..MaxSmallLen }

\* rel_offset values tried for a pattern: valid ones (at most len-4) and the
\* first one past them
RelOffsets(pat) == {0, 1, 3, Len(pat) - 4, Len(pat) - 3} \cap (0..Max0(Len(pat) - 3))

\* the images the target of connect_to_game may have: the anchor pattern
\* in it, or absent
SessionImages ==
  { Stamp(Fill(LongLen), 2, Instance(EVENT_FLAG_MAN_AOB, <<0, 1, 0, 0>>)),
    Fill(LongLen) }

(***************************************************************************)
(* EldenRingModTool: pointer chain and unlock loop                         *)
(***************************************************************************)
\* a slip for get_event_flag_base: the pointer read at the anchor is not
\* tested before it is dereferenced
get_event_flag_base_Unchecked(m, efm, e1, e2) ==
  LET ptr == read_int64(m, e1)
      base_addr == read_int64(m, e2)
  IN  IF efm = 0 THEN [ base |-> 0, derefs |-> <<>> ]
      ELSE [ base |-> base_addr,
             derefs |-> << [addr |-> efm, value |-> ptr],
                           [addr |-> ptr + 40, value |-> base_addr] >> ]

\* a slip for get_event_flag_base: a null result at the final step is
\* replaced by the address the structure is usually found at
get_event_flag_base_NullFinal(m, efm, e1, e2) ==
  LET ptr == read_int64(m, e1)
      base_addr == read_int64(m, e2)
  IN  IF efm = 0 THEN [ base |-> 0, derefs |-> <<>> ]
      ELSE IF ptr = 0 THEN [ base |-> 0, derefs |-> << [addr |-> efm, value |-> ptr] >> ]
      ELSE [ base |-> IF base_addr = 0 THEN FlagBase ELSE base_addr,
             derefs |-> << [addr |-> efm, value |-> ptr],
                           [addr |-> ptr + 40, value |-> base_addr] >> ]

\* get_event_flag_base: e1 / e2 are what the two reads meet.
\* Result: base and the read_int64 calls made (address, value returned).
get_event_flag_base(m, efm, e1, e2) ==
  LET ptr == read_int64(m, e1)
      base_addr == read_int64(m, e2)
  IN  IF efm = 0 THEN [ base |-> 0, derefs |-> <<>> ]
      ELSE IF ptr = 0 THEN [ base |-> 0, derefs |-> << [addr |-> efm, value |-> ptr] >> ]
      ELSE [ base |-> base_addr,
             derefs |-> << [addr |-> efm, value |-> ptr],
                           [addr |-> ptr + 40, value |-> base_addr] >> ]

\* a slip for UnlockOne: the name is reported whatever write_byte returns
UnlockOne_AlwaysReported(m, st, flag_base, sel, grace_name, rf, wf) ==
  IF grace_name \in sel /\ grace_name \in DOMAIN KNOWN_GRACES
  THEN LET off == KNOWN_GRACES[grace_name][1]
           bit == KNOWN_GRACES[grace_name][2]
           addr == flag_base + off
           current == read_byte(m, st.mem[addr], grace_name \notin rf)
           new_value == BitOr(current, Pow2(bit))
           w == write_byte(m, st.mem[addr], new_value, grace_name \notin wf)
       IN  [ mem |-> [st.mem EXCEPT ![addr] = w.byte],
             reads |-> Append(st.reads, [ name |-> grace_name, addr |-> addr,
                                          ok |-> grace_name \notin rf ]),
             writes |-> Append(st.writes, [ name |-> grace_name, addr |-> addr,
                                            value |-> new_value,
                                            ok |-> grace_name \notin wf ]),
             unlocked |-> Append(st.unlocked, grace_name) ]
  ELSE st

\* the body of the for loop of unlock_selected_graces for one checkbox;
\* st = [mem, reads, writes, unlocked]; rf / wf: names whose read / write fails
UnlockOne(m, st, flag_base, sel, grace_name, rf, wf) ==
  IF grace_name \in sel /\ grace_name \in DOMAIN KNOWN_GRACES
  THEN LET off == KNOWN_GRACES[grace_name][1]
           bit == KNOWN_GRACES[grace_name][2]
           addr == flag_base + off
           current == read_byte(m, st.mem[addr], grace_name \notin rf)
           new_value == BitOr(current, Pow2(bit))
           w == write_byte(m, st.mem[addr], new_value, grace_name \notin wf)
       IN  [ mem |-> [st.mem EXCEPT ![addr] = w.byte],
             reads |-> Append(st.reads, [ name |-> grace_name, addr |-> addr,
                                          ok |-> grace_name \notin rf ]),
             writes |-> Append(st.writes, [ name |-> grace_name, addr |-> addr,
                                            value |-> new_value,
                                            ok |-> grace_name \notin wf ]),
             unlocked |-> IF w.ret THEN Append(st.unlocked, grace_name)
                          ELSE st.unlocked ]
  ELSE st

\* the for loop over self.grace_checkboxes.items(), from index k on
RECURSIVE UnlockLoop(_, _, _, _, _, _, _)
UnlockLoop(m, st, flag_base, sel, k, rf, wf) ==
  IF k > Len(grace_checkboxes) THEN st
  ELSE UnlockLoop(m, UnlockOne(m, st, flag_base, sel, grace_checkboxes[k], rf, wf),
                  flag_base, sel, k + 1, rf, wf)

\* the whole loop, started with an empty `unlocked`
UnlockAll(m, bytes, flag_base, sel, rf, wf) ==
  UnlockLoop(m, [ mem |-> bytes, reads |-> <<>>, writes |-> <<>>, unlocked |-> <<>> ],
             flag_base, sel, 1, rf, wf)


(***************************************************************************)
(* Actions                                                                 *)
(***************************************************************************)
NoLog ==
  /\ derefs' = <<>>
  /\ reads' = <<>>
  /\ writes' = <<>>
  /\ unlocked' = <<>>

\* scan_aob returns ret to its caller, with pa the address the pattern was
\* found at and rfail whether a chunk read failed.  connect_to_game stores ret
\* in event_flag_man and reports (a warning box when nothing was found); what
\* the scan did is kept for a caller that inspects it.
ScanReturn(m, ret, pa, rfail, cl) ==
  /\ memory' = m
  /\ IF cl = "connect"
     THEN /\ event_flag_man' = ret
          /\ efm_pm' = m.pm
          /\ message' = IF ret # 0 THEN "" ELSE "warning: EventFlagMan not found"
          /\ pc' = IF ret # 0 THEN "idle" ELSE "dialog"
          /\ scan_ret' = -1
          /\ pattern_address' = -1
          /\ read_failed' = FALSE
          /\ caller' = ""
     ELSE /\ pc' = "idle"
          /\ scan_ret' = ret
          /\ pattern_address' = pa
          /\ read_failed' = rfail
          /\ caller' = cl
          /\ UNCHANGED << event_flag_man, efm_pm, message >>

\* an exception is raised inside the try block of scan_aob: by the pattern
\* scan, or by pm.read_int (on its own account, or because the four bytes at
\* result + rel_offset are not all mapped)
AccelRaises(m, img, pat, rel, a) ==
  LET result == pattern_scan_module(m, img, pat)
  IN  \/ a = "raise"
      \/ /\ result # 0
         /\ \/ a = "read_raise"
            \/ result + rel + 4 > m.module_base + Len(img)

\* the call of scan_aob(pat, rel, add) by the caller cl, on the manager m
ScanAobCall(m, img, pat, rel, add, a, cl) ==
  LET e == ScanEntry(m, img, pat, rel, add, a)
  IN  /\ pattern' = pat
      /\ rel_offset' = rel
      /\ additional' = add
      /\ offset' = 0
      /\ chunk_bytes' = <<>>
      /\ accel' = IF cl = "connect" \/ m.pm = 0 \/ m.module_size = 0 THEN ""
                  ELSE IF AccelRaises(m, img, pat, rel, a) THEN "raised"
                  ELSE "returned"
      /\ IF e.manual
         THEN /\ pc' = "manual"
              /\ caller' = cl
              /\ strategy' = "manual"
              /\ scan_ret' = -1
              /\ pattern_address' = -1
              /\ read_failed' = FALSE
              /\ memory' = e.m
              /\ UNCHANGED << event_flag_man, efm_pm >>
              /\ message' = ""
         ELSE /\ strategy' = IF cl = "connect" THEN "" ELSE "pymem"
              /\ ScanReturn(e.m, e.ret, e.pattern_address, FALSE, cl)

\* the outcomes of the candidates attach gets to: nothing is tried after a
\* candidate that makes attach return
AttachRuns(n) ==
  { out \in [1..n -> AttachOutcomes] :
      \A i \in 1..n, j \in 1..n :
         (i < j /\ out[i] \in {"Ok", "Denied"}) => out[j] = "NotFound" }

\* connect_to_game, up to its return, its message box, or the entry of the
\* manual scan loop
Connect ==
  /\ pc = "idle"
  /\ opened < MaxOpened
  /\ \E out \in AttachRuns(Len(CandidateNames(""))), base \in ModuleBases,
        img \in SessionImages :
       LET at == attach(memory, PYMEM_AVAILABLE, opened, image, handles, "", out, base,
                        img)
       IN  /\ attach_ret' = at.ret
           /\ opened' = at.opened
           /\ handles' = at.handles
           /\ IF ~at.ret
              THEN \* no module was resolved: the choice of img plays no part
                   /\ img = CHOOSE x \in SessionImages : TRUE
                   /\ image' = at.image
                   /\ memory' = at.m
                   /\ message' = "error: game not found"
                   /\ pc' = "dialog"
                   /\ UNCHANGED << scanvars, event_flag_man, efm_pm >>
              ELSE IF at.m.module_base = 0
              THEN /\ image' = at.image
                   /\ memory' = at.m
                   /\ message' = "warning: module not ready"
                   /\ pc' = "dialog"
                   /\ UNCHANGED << scanvars, event_flag_man, efm_pm >>
              ELSE /\ image' = at.image
                   /\ \E a \in AccelOutcomes :
                        ScanAobCall(at.m, at.image, EVENT_FLAG_MAN_AOB, 3, 7, a, "connect")
  /\ NoLog
  /\ UNCHANGED << PYMEM_AVAILABLE, mem, checked, loopvars, presetvars, last_call,
                  statvars >>

\* one iteration of the while loop of _manual_scan_aob (or its exit) and,
\* when the function returns, the rest of its caller
ManualScanStep ==
  /\ pc = "manual"
  /\ \E ok \in BOOLEAN :
       LET r == ManualIter(memory, image, pattern, rel_offset, additional, offset, ok)
           rfail == read_failed \/ (offset < memory.module_size /\ ~ok)
       IN  /\ UNCHANGED << pattern, rel_offset, additional >>
           /\ IF r.done
              THEN /\ offset' = 0
                   /\ chunk_bytes' = <<>>
                   /\ strategy' = IF caller = "connect" THEN "" ELSE strategy
                   /\ ScanReturn(r.m, r.ret, r.pattern_address, rfail, caller)
              ELSE /\ offset' = r.offset
                   /\ chunk_bytes' = r.chunk
                   /\ read_failed' = rfail
                   /\ memory' = r.m
                   /\ UNCHANGED << pc, caller, strategy, scan_ret, pattern_address,
                                   event_flag_man, efm_pm, message >>
  /\ UNCHANGED << PYMEM_AVAILABLE, opened, image, handles, mem, checked, attach_ret,
                  derefs, reads, writes, unlocked, accel, loopvars, presetvars,
                  last_call,
                  statvars >>

\* the user clicks the checkbox of grace n
ToggleGrace(n) ==
  /\ pc = "idle"
  /\ checked' = IF n \in checked THEN checked \ {n} ELSE checked \cup {n}
  /\ UNCHANGED << mmvars, scanvars, logvars, mem, pc, event_flag_man, efm_pm,
                  attach_ret, loopvars, presetvars, last_call,
                  statvars >>

\* what the two pointer reads of get_event_flag_base may meet
Deref1 == { ReadFail, Stored(0), Stored(Ptr1) }
Deref2 == { ReadFail, Stored(0), Stored(FlagBase) }

\* unlock_selected_graces with the checkboxes of sel set, from its first line
\* up to its message box
UnlockBody(sel) ==
  /\ pc' = "dialog"
  /\ IF ~is_attached(memory)
     THEN /\ message' = "error: not connected"
          /\ NoLog
          /\ UNCHANGED << mem, memory >>
     ELSE \E e1 \in Deref1 :
          \E e2 \in IF read_int64(memory, e1) = 0 THEN {ReadFail} ELSE Deref2 :
            LET fb == get_event_flag_base(memory, event_flag_man, e1, e2)
            IN  /\ derefs' = fb.derefs
                /\ IF fb.base = 0
                   THEN /\ message' = "error: could not access event flags"
                        /\ reads' = <<>>
                        /\ writes' = <<>>
                        /\ unlocked' = <<>>
                        /\ UNCHANGED << mem, memory >>
                   ELSE \E rf \in SUBSET sel, wf \in SUBSET sel :
                          LET u == UnlockAll(memory, mem, fb.base, sel, rf, wf)
                          IN  /\ mem' = u.mem
                              /\ reads' = u.reads
                              /\ writes' = u.writes
                              /\ unlocked' = u.unlocked
                              /\ memory' = write_error(memory,
                                             \A k \in 1..Len(u.writes) : u.writes[k].ok)
                              /\ message' = IF u.unlocked # <<>> THEN "success"
                                            ELSE "info: no graces selected"

\* the button "Unlock Selected"
UnlockSelected ==
  /\ pc = "idle"
  /\ UnlockBody(checked)
  /\ UNCHANGED << PYMEM_AVAILABLE, opened, image, handles, scanvars, event_flag_man,
                  efm_pm, checked, attach_ret, loopvars, presetvars, last_call,
                  statvars >>

\* the user dismisses the message box and the handler returns
DismissDialog ==
  /\ pc = "dialog"
  /\ resume = ""
  /\ pc' = "idle"
  /\ message' = ""
  /\ not_found' = << >>
  /\ NoLog
  /\ UNCHANGED << mmvars, scanvars, mem, event_flag_man, efm_pm, checked, attach_ret,
                  loopvars, preset_table, preset_var, resume, last_call,
                  statvars >>

\* on_closing
OnClosing ==
  /\ pc = "idle"
  /\ memory' = IF is_attached(memory) THEN detach(memory) ELSE memory
  /\ handles' = IF is_attached(memory) THEN detach_handles(handles, memory) ELSE handles
  /\ pc' = "closed"
  /\ UNCHANGED << PYMEM_AVAILABLE, opened, image, mem, scanvars, guivars, logvars,
                  loopvars, presetvars, last_call,
                  statvars >>

(***************************************************************************)
(* Stat randomizer: the generator, randomize_stats, the files              *)
(***************************************************************************)
PLAYER_CLASSES ==
  ( 3000 :> "Vagabond" @@ 3001 :> "Warrior" @@ 3002 :> "Hero" @@ 3003 :> "Bandit"
    @@ 3004 :> "Astrologer" @@ 3005 :> "Prisoner" @@ 3006 :> "Confessor"
    @@ 3007 :> "Samurai" @@ 3008 :> "Prophet" @@ 3009 :> "Wretch" )

\* PLAYER_CLASSES.items() in iteration order
ClassOrder == << 3000, 3001, 3002, 3003, 3004, 3005, 3006, 3007, 3008, 3009 >>

TARGET_LEVEL == 9
TOTAL_STATS == 88
MIN_STAT == 6
NUM_STATS == 8

\* list(stats.keys()) inside the loop of randomize_stats
StatKeys ==
  << "vigor", "mind", "endurance", "strength", "dexterity", "intelligence", "faith",
     "arcane" >>

\* The generator of module random stands behind seed() and choice().  It is
\* modelled as a 16-bit linear congruential generator: what matters is that
\* it is one deterministic state shared by the whole process.
RngBits == 16
RngMod == 65536
RngMul == 25173
RngInc == 13849

\* random.seed(seed): the state is a function of the seed alone
random_seed(seed) == seed % RngMod

\* getrandbits(k): the generator advances, its k top bits are returned
getrandbits(state, k) ==
  LET s2 == (state * RngMul + RngInc) % RngMod
  IN  [ rng |-> s2, r |-> s2 \div Pow2(RngBits - k) ]

\* n.bit_length()
RECURSIVE BitLength(_)
BitLength(n) == IF n = 0 THEN 0 ELSE 1 + BitLength(n \div 2)

\* Random._randbelow(n): draw bit_length(n) bits until the value is below n
RECURSIVE randbelow(_, _)
randbelow(state, n) ==
  LET g == getrandbits(state, BitLength(n))
  IN  IF g.r < n THEN g ELSE randbelow(g.rng, n)

\* random.choice(keys): the generator after the call and the key chosen
random_choice(state, keys) ==
  LET g == randbelow(state, Len(keys))
  IN  [ rng |-> g.rng, key |-> keys[g.r + 1] ]

\* the dict `stats` a class starts with
MinStats == [ k \in SeqToSet(StatKeys) |-> MIN_STAT ]

\* a slip for remaining_pool: the minimum of each stat is not taken off
remaining_pool_Whole == TOTAL_STATS

\* remaining_pool of randomize_stats
remaining_pool == TOTAL_STATS - (MIN_STAT * NUM_STATS)

\* one iteration of the inner loop: stats[random.choice(...)] += 1;
\* st = [rng, stats, left]: the generator, the dict, the iterations to go
DrawOne(st) ==
  LET c == random_choice(st.rng, StatKeys)
  IN  [ rng |-> c.rng, stats |-> [ st.stats EXCEPT ![c.key] = @ + 1 ],
        left |-> st.left - 1 ]

\* the inner loop: for _ in range(remaining_pool)
RECURSIVE DrawLoop(_)
DrawLoop(st) == IF st.left = 0 THEN st ELSE DrawLoop(DrawOne(st))

\* stats['level'] = TARGET_LEVEL
WithLevel(stats) == [ k \in DOMAIN stats \cup {"level"} |->
                        IF k = "level" THEN TARGET_LEVEL ELSE stats[k] ]

\* the outer loop over the classes ids, in order, until every class has its
\* entry; acc = [rng, all]: the generator and all_stats so far (row id -> stats)
RECURSIVE ClassLoop(_, _, _)
ClassLoop(acc, ids, pool) ==
  IF DOMAIN acc.all = SeqToSet(ids) THEN acc
  ELSE LET row_id == ids[Cardinality(DOMAIN acc.all) + 1]
           d == DrawLoop([ rng |-> acc.rng, stats |-> MinStats, left |-> pool ])
       IN  ClassLoop([ rng |-> d.rng, all |-> acc.all @@ (row_id :> WithLevel(d.stats)) ],
                     ids, pool)

\* randomize_stats over the classes ids with `pool` points to hand out,
\* started on the generator state `state0` after random.seed has been called
RandomizeFrom(state0, ids, pool) ==
  ClassLoop([ rng |-> state0, all |-> << >> ], ids, pool)

\* randomize_stats(seed): the generator it leaves and the all_stats returned
randomize_stats(seed) == RandomizeFrom(random_seed(seed), ClassOrder, remaining_pool)

\* a file: absent, whole with the stats of the seeds in `stats` packed in
\* (<< >>: the stats the game shipped with), or cut short by a failed copy
Absent == [ exists |-> FALSE, whole |-> FALSE, stats |-> << >> ]
File(st) == [ exists |-> TRUE, whole |-> TRUE, stats |-> st ]
Truncated == [ exists |-> TRUE, whole |-> FALSE, stats |-> << >> ]

\* no process_regulation call has returned
NoRun ==
  [ success |-> FALSE, message |-> "", seed |-> 0, before |-> Absent,
    converters_ok |-> FALSE, packed |-> FALSE, repack |-> "" ]

\* no thread is inside randomize_stats
NoFrame == [ pc |-> "none", seed |-> 0, class |-> 0, left |-> 0, all |-> << >>,
             stats |-> << >> ]

\* nothing is shown in the preview pane
NoPreview == [ seed |-> 0, all |-> << >> ]

\* the regulation file of the game is in place, nothing has been run
NoStats ==
  /\ fs = [ reg |-> File(<< >>), backup |-> Absent, csv |-> {}, work |-> {} ]
  /\ run = NoRun
  /\ first_reg = Absent
  /\ rng = 0
  /\ worker = NoFrame
  /\ uithread = NoFrame
  /\ randomize_btn = "normal"
  /\ preview = NoPreview
  /\ runs = 0

\* no call has been made on the MemoryManager directly
NoCall ==
  [ op |-> "", arg |-> "", ok |-> TRUE, out |-> << >>, tried |-> << >>,
    ret |-> FALSE, prev |-> "" ]

\* the rows of GRACE_PRESETS whose graces the model keeps a checkbox of
GRACE_PRESETS ==
  ( "Early Game" :> << "The First Step", "Church of Elleh" >> )

\* no handler is followed step by step, no preset is chosen
NoSideState ==
  /\ last_call = NoCall
  /\ grace_idx = 0
  /\ loop_flag_base = 0
  /\ loop_current = 0
  /\ at_read = 0
  /\ preset_table = GRACE_PRESETS
  /\ preset_var = ""
  /\ not_found = << >>
  /\ resume = ""

(***************************************************************************)
(* The tool as the user drives it                                          *)
(***************************************************************************)
Init ==
  /\ PYMEM_AVAILABLE \in BOOLEAN
  /\ memory = NewMemoryManager
  /\ opened = 0
  /\ image = <<>>
  /\ mem \in [FlagAddrs -> InitBytes]
  /\ event_flag_man = 0
  /\ efm_pm = 0
  /\ checked = {}
  /\ pc = "idle"
  /\ caller = ""
  /\ pattern = <<>>
  /\ rel_offset = 0
  /\ additional = 0
  /\ offset = 0
  /\ chunk_bytes = <<>>
  /\ read_failed = FALSE
  /\ strategy = ""
  /\ pattern_address = -1
  /\ scan_ret = -1
  /\ attach_ret = "none"
  /\ derefs = <<>>
  /\ reads = <<>>
  /\ writes = <<>>
  /\ unlocked = <<>>
  /\ message = ""
  /\ handles = {}
  /\ accel = ""
  /\ NoSideState
  /\ NoStats

Next ==
  \/ Connect
  \/ ManualScanStep
  \/ \E n \in GraceNames : ToggleGrace(n)
  \/ UnlockSelected
  \/ DismissDialog
  \/ OnClosing

Spec == Init /\ [][Next]_vars

(***************************************************************************)
(* scan_aob on its own: an attached manager, any image, any arguments      *)
(***************************************************************************)
ScanInputs ==
  { <<img, pat>> : img \in SmallImages, pat \in SmallPatterns }
  \cup UNION { { <<img, pat>> : img \in LongImages(pat) } : pat \in LongPatterns }

ScanInit ==
  /\ PYMEM_AVAILABLE = TRUE
  /\ \E in \in ScanInputs, base \in ModuleBases :
       /\ image = in[1]
       /\ pattern = in[2]
       /\ memory = [ pm |-> 1, module_base |-> base, module_size |-> Len(in[1]),
                     process_id |-> Pid(1), process_name |-> ELDEN_RING_PROCESSES[1],
                     last_error |-> "" ]
  /\ rel_offset \in RelOffsets(pattern)
  /\ additional \in {0, 7}
  /\ opened = 1
  /\ mem \in [FlagAddrs -> {0}]
  /\ event_flag_man = 0
  /\ efm_pm = 0
  /\ checked = {}
  /\ pc = "call"
  /\ caller = ""
  /\ offset = 0
  /\ chunk_bytes = <<>>
  /\ read_failed = FALSE
  /\ strategy = ""
  /\ pattern_address = -1
  /\ scan_ret = -1
  /\ attach_ret = TRUE
  /\ derefs = <<>>
  /\ reads = <<>>
  /\ writes = <<>>
  /\ unlocked = <<>>
  /\ message = ""
  /\ handles = {1}
  /\ accel = ""
  /\ NoSideState
  /\ NoStats

\* the call self.memory.scan_aob(pattern, rel_offset, additional)
ScanAob ==
  /\ pc = "call"
  /\ \E a \in AccelOutcomes :
       ScanAobCall(memory, image, pattern, rel_offset, additional, a, "scan")
  /\ UNCHANGED << PYMEM_AVAILABLE, opened, image, handles, mem, checked, attach_ret,
                  derefs, reads, writes, unlocked, loopvars, presetvars, last_call,
                  statvars >>

ScanNext == ScanAob \/ ManualScanStep

ScanSpec == ScanInit /\ [][ScanNext]_vars


(***************************************************************************)
(* The MemoryManager called directly: attach and detach in any order, and  *)
(* reads and writes in any order                                           *)
(***************************************************************************)
\* the process_name arguments attach is called with: none, or a name that
\* is not in ELDEN_RING_PROCESSES
PreferredNames == { "", "game.exe" }

\* the image of the module found by a direct attach call
ApiImage == << 77, 90, 144, 0 >>

\* the flag bytes of the target when the calls start
ApiBytes == [ a \in FlagAddrs |-> IF a = FlagBase + 3262 THEN 129 ELSE 0 ]

\* the record of a direct call: op(arg), meeting ok / out in the target,
\* trying the names `tr` and returning ret; of a detach call also the call
\* `prev` made before it
Call(op, arg, ok, out, tr, ret) ==
  [ op |-> op, arg |-> arg, ok |-> ok, out |-> out, tried |-> tr, ret |-> ret,
    prev |-> IF op = "detach" THEN last_call.op ELSE "" ]

\* a manager that attach has attached to the first candidate
AttachedManager ==
  [ pm |-> 1, module_base |-> CHOOSE b \in ModuleBases : TRUE,
    module_size |-> Len(ApiImage), process_id |-> Pid(1),
    process_name |-> ELDEN_RING_PROCESSES[1], last_error |-> "" ]

\* the manager as constructed, or attached
ApiInit ==
  /\ PYMEM_AVAILABLE \in BOOLEAN
  /\ \/ /\ memory = NewMemoryManager
        /\ opened = 0
        /\ image = << >>
        /\ handles = {}
        /\ attach_ret = "none"
     \/ /\ PYMEM_AVAILABLE
        /\ memory = AttachedManager
        /\ opened = 1
        /\ image = ApiImage
        /\ handles = {1}
        /\ attach_ret = TRUE
  /\ mem = ApiBytes
  /\ event_flag_man = 0
  /\ efm_pm = 0
  /\ checked = {}
  /\ pc = "idle"
  /\ caller = ""
  /\ pattern = << >>
  /\ rel_offset = 0
  /\ additional = 0
  /\ offset = 0
  /\ chunk_bytes = << >>
  /\ read_failed = FALSE
  /\ strategy = ""
  /\ pattern_address = -1
  /\ scan_ret = -1
  /\ derefs = << >>
  /\ reads = << >>
  /\ writes = << >>
  /\ unlocked = << >>
  /\ message = ""
  /\ accel = ""
  /\ NoSideState
  /\ NoStats

\* what a direct call leaves alone besides the manager and the target
ApiFrame ==
  UNCHANGED << PYMEM_AVAILABLE, scanvars, event_flag_man, efm_pm, checked, logvars,
               loopvars, presetvars, statvars, pc >>

\* memory.attach(pn)
AttachCall ==
  /\ opened < MaxOpened
  /\ \E pn \in PreferredNames, base \in ModuleBases :
     \E out \in AttachRuns(Len(CandidateNames(pn))) :
       LET at == attach(memory, PYMEM_AVAILABLE, opened, image, handles, pn, out, base,
                        ApiImage)
       IN  /\ memory' = at.m
           /\ opened' = at.opened
           /\ image' = at.image
           /\ handles' = at.handles
           /\ attach_ret' = at.ret
           /\ last_call' = Call("attach", pn, TRUE, out, at.tried, at.ret)
  /\ UNCHANGED mem
  /\ ApiFrame

\* memory.detach()
DetachCall ==
  /\ memory' = detach(memory)
  /\ handles' = detach_handles(handles, memory)
  /\ last_call' = Call("detach", "", TRUE, << >>, << >>, FALSE)
  /\ image' = << >>
  /\ UNCHANGED << opened, attach_ret, mem >>
  /\ ApiFrame

\* memory.read_bytes(address, 2): at the module base, or where the second
\* byte lies past the end of the module
ReadBytesCall ==
  /\ \E address \in { memory.module_base, memory.module_base + Len(image) - 1 },
        ok \in BOOLEAN :
       LET rd == read_bytes(memory, image, address, 2, ok)
           mapped == address - memory.module_base + 2 <= Len(image)
       IN  /\ memory' = rd.m
           /\ last_call' = Call("read_bytes", address, ok /\ mapped, << >>, << >>,
                                rd.bytes)
  /\ UNCHANGED << opened, image, handles, attach_ret, mem >>
  /\ ApiFrame

\* memory.read_int64(Ptr1) / memory.read_int32(Ptr1)
ReadIntCall ==
  /\ \E op \in { "read_int64", "read_int32" }, e \in Deref1 :
       last_call' = Call(op, Ptr1, e.ok, << >>, << >>,
                         IF op = "read_int64" THEN read_int64(memory, e)
                         ELSE read_int32(memory, e))
  /\ UNCHANGED << memory, opened, image, handles, attach_ret, mem >>
  /\ ApiFrame

\* memory.read_byte(a) on a flag byte
ReadByteCall ==
  /\ \E a \in FlagAddrs, ok \in BOOLEAN :
       last_call' = Call("read_byte", a, ok, << >>, << >>, read_byte(memory, mem[a], ok))
  /\ UNCHANGED << memory, opened, image, handles, attach_ret, mem >>
  /\ ApiFrame

\* memory.write_byte(a, 0x104) / memory.write_bytes(a, b'\x04') on a flag byte
WriteCall ==
  /\ \E op \in { "write_byte", "write_bytes" }, a \in FlagAddrs, ok \in BOOLEAN :
       LET w1 == write_byte(memory, mem[a], 260, ok)
           wn == write_bytes(memory, << mem[a] >>, << 4 >>, ok)
       IN  /\ mem' = [ mem EXCEPT ![a] = IF op = "write_byte" THEN w1.byte
                                         ELSE wn.bytes[1] ]
           /\ memory' = write_error(memory, ok)
           /\ last_call' = Call(op, a, ok, << >>, << >>,
                                IF op = "write_byte" THEN w1.ret ELSE wn.ret)
  /\ UNCHANGED << opened, image, handles, attach_ret >>
  /\ ApiFrame

\* attach and detach called in any order
AttachNext == AttachCall \/ DetachCall

AttachSpec == ApiInit /\ [][AttachNext]_vars

\* the reads and writes called in any order
MemNext ==
  \/ ReadBytesCall
  \/ ReadIntCall
  \/ ReadByteCall
  \/ WriteCall

MemSpec == ApiInit /\ [][MemNext]_vars


(***************************************************************************)
(* unlock_selected_graces followed call by call, with the target process   *)
(* writing its own flag bytes in between                                   *)
(***************************************************************************)
\* values the target may store in a flag byte of its own accord
TargetBytes == { 0, 131 }

\* the anchor of a connected session
SessionAnchor == 4361

\* the tool is connected: attached, the anchor scanned
RaceInit ==
  /\ PYMEM_AVAILABLE = TRUE
  /\ memory = AttachedManager
  /\ opened = 1
  /\ image = ApiImage
  /\ handles = {1}
  /\ attach_ret = TRUE
  /\ mem \in [FlagAddrs -> InitBytes]
  /\ event_flag_man = SessionAnchor
  /\ efm_pm = 1
  /\ checked \in SUBSET GraceNames
  /\ pc = "idle"
  /\ caller = ""
  /\ pattern = << >>
  /\ rel_offset = 0
  /\ additional = 0
  /\ offset = 0
  /\ chunk_bytes = << >>
  /\ read_failed = FALSE
  /\ strategy = ""
  /\ pattern_address = -1
  /\ scan_ret = -1
  /\ derefs = << >>
  /\ reads = << >>
  /\ writes = << >>
  /\ unlocked = << >>
  /\ message = ""
  /\ accel = ""
  /\ NoSideState
  /\ NoStats

\* what the steps of the handler leave alone
RaceFrame ==
  UNCHANGED << PYMEM_AVAILABLE, opened, image, handles, scanvars, guivars, presetvars,
               last_call,
               statvars >>

\* unlock_selected_graces from its first line to the head of its for loop
UnlockBegin ==
  /\ pc = "idle"
  /\ IF ~is_attached(memory)
     THEN /\ message' = "error: not connected"
          /\ pc' = "dialog"
          /\ NoLog
          /\ UNCHANGED loopvars
     ELSE \E e1 \in Deref1 :
          \E e2 \in IF read_int64(memory, e1) = 0 THEN {ReadFail} ELSE Deref2 :
            LET fb == get_event_flag_base(memory, event_flag_man, e1, e2)
            IN  /\ derefs' = fb.derefs
                /\ reads' = << >>
                /\ writes' = << >>
                /\ unlocked' = << >>
                /\ IF fb.base = 0
                   THEN /\ message' = "error: could not access event flags"
                        /\ pc' = "dialog"
                        /\ UNCHANGED loopvars
                   ELSE /\ message' = ""
                        /\ pc' = "loop"
                        /\ grace_idx' = 1
                        /\ loop_flag_base' = fb.base
                        /\ UNCHANGED << loop_current, at_read >>
  /\ UNCHANGED << memory, mem >>
  /\ RaceFrame

\* the head of the for loop: the loop ends and the message box is shown, or
\* the next checkbox is taken and, when it is set, read_byte is called
UnlockRead ==
  /\ pc = "loop"
  /\ IF grace_idx > Len(grace_checkboxes)
     THEN /\ message' = IF unlocked # << >> THEN "success" ELSE "info: no graces selected"
          /\ pc' = "dialog"
          /\ grace_idx' = 0
          /\ loop_flag_base' = 0
          /\ loop_current' = 0
          /\ at_read' = 0
          /\ UNCHANGED reads
     ELSE LET grace_name == grace_checkboxes[grace_idx]
              addr == loop_flag_base + KNOWN_GRACES[grace_name][1]
          IN  IF grace_name \in checked /\ grace_name \in DOMAIN KNOWN_GRACES
              THEN \E ok \in BOOLEAN :
                     /\ loop_current' = read_byte(memory, mem[addr], ok)
                     /\ at_read' = mem[addr]
                     /\ reads' = Append(reads, [ name |-> grace_name, addr |-> addr,
                                                 ok |-> ok ])
                     /\ pc' = "write"
                     /\ UNCHANGED << grace_idx, loop_flag_base, message >>
              ELSE /\ grace_idx' = grace_idx + 1
                   /\ UNCHANGED << loop_flag_base, loop_current, at_read, reads, message,
                                   pc >>
  /\ UNCHANGED << memory, mem, derefs, writes, unlocked >>
  /\ RaceFrame

\* new_value = current | (1 << bit) and the call of write_byte
UnlockWrite ==
  /\ pc = "write"
  /\ \E ok \in BOOLEAN :
       LET grace_name == grace_checkboxes[grace_idx]
           addr == loop_flag_base + KNOWN_GRACES[grace_name][1]
           new_value == BitOr(loop_current, Pow2(KNOWN_GRACES[grace_name][2]))
           w == write_byte(memory, mem[addr], new_value, ok)
       IN  /\ mem' = [ mem EXCEPT ![addr] = w.byte ]
           /\ memory' = write_error(memory, ok)
           /\ writes' = Append(writes, [ name |-> grace_name, addr |-> addr,
                                         value |-> new_value, ok |-> ok ])
           /\ unlocked' = IF w.ret THEN Append(unlocked, grace_name) ELSE unlocked
  /\ grace_idx' = grace_idx + 1
  /\ pc' = "loop"
  /\ UNCHANGED << loop_flag_base, loop_current, at_read, derefs, reads, message >>
  /\ RaceFrame

\* the target process stores a value in one of its flag bytes while the
\* handler is running
TargetWrite ==
  /\ pc \in { "loop", "write" }
  /\ \E a \in FlagAddrs, v \in TargetBytes :
       /\ mem[a] # v
       /\ mem' = [ mem EXCEPT ![a] = v ]
  /\ UNCHANGED << memory, logvars, loopvars, pc >>
  /\ RaceFrame

RaceNext ==
  \/ UnlockBegin
  \/ UnlockRead
  \/ UnlockWrite
  \/ TargetWrite
  \/ DismissDialog

RaceSpec == RaceInit /\ [][RaceNext]_vars


(***************************************************************************)
(* The preset buttons: apply_grace_preset and unlock_preset_graces         *)
(***************************************************************************)
\* the preset tables the tool may be started with: the rows of the source,
\* or rows in which a preset lists a name that the registry does not have
PresetTables ==
  { GRACE_PRESETS,
    ( "Early Game" :> << "The First Step", "Church of Ellah", "Church of Elleh" >> ) }

\* a slip for apply_grace_preset: the loop over the preset's names ends at
\* the first name that has no checkbox
apply_grace_preset_StopsAtUnknown(table, pv, sel) ==
  IF pv = "" THEN [ box |-> "info: select a preset first", checked |-> sel,
                    not_found |-> << >> ]
  ELSE IF pv \notin DOMAIN table
  THEN [ box |-> "error: unknown preset", checked |-> sel, not_found |-> << >> ]
  ELSE LET preset_graces == table[pv]
           missing == SeqMinus(preset_graces, GraceNames)
           stop == IF missing = << >> THEN Len(preset_graces) + 1
                   ELSE CHOOSE k \in 1..Len(preset_graces) :
                          /\ preset_graces[k] \notin GraceNames
                          /\ \A j \in 1..(k - 1) : preset_graces[j] \in GraceNames
       IN  [ box |-> IF missing # << >> THEN "warning: preset graces not found" ELSE "",
             checked |-> { preset_graces[k] : k \in 1..(stop - 1) },
             not_found |-> IF missing = << >> THEN << >> ELSE << missing[1] >> ]

\* a slip for apply_grace_preset: the checkboxes are not cleared first
apply_grace_preset_NoDeselect(table, pv, sel) ==
  IF pv = "" THEN [ box |-> "info: select a preset first", checked |-> sel,
                    not_found |-> << >> ]
  ELSE IF pv \notin DOMAIN table
  THEN [ box |-> "error: unknown preset", checked |-> sel, not_found |-> << >> ]
  ELSE LET preset_graces == table[pv]
           missing == SeqMinus(preset_graces, GraceNames)
       IN  [ box |-> IF missing # << >> THEN "warning: preset graces not found" ELSE "",
             checked |-> sel \cup (SeqToSet(preset_graces) \cap GraceNames),
             not_found |-> missing ]

\* apply_grace_preset with preset_var = pv and the checkboxes of sel set:
\* the message box it shows ("" = none), the checkboxes set when it returns
\* and its list not_found
apply_grace_preset(table, pv, sel) ==
  IF pv = "" THEN [ box |-> "info: select a preset first", checked |-> sel,
                    not_found |-> << >> ]
  ELSE IF pv \notin DOMAIN table
  THEN [ box |-> "error: unknown preset", checked |-> sel, not_found |-> << >> ]
  ELSE LET preset_graces == table[pv]
           missing == SeqMinus(preset_graces, GraceNames)
       IN  [ box |-> IF missing # << >> THEN "warning: preset graces not found" ELSE "",
             checked |-> SeqToSet(preset_graces) \cap GraceNames,
             not_found |-> missing ]

\* the tool is connected, some checkboxes are set, no preset is chosen
PresetInit ==
  /\ PYMEM_AVAILABLE = TRUE
  /\ memory = AttachedManager
  /\ opened = 1
  /\ image = ApiImage
  /\ handles = {1}
  /\ attach_ret = TRUE
  /\ mem \in [FlagAddrs -> InitBytes]
  /\ event_flag_man = SessionAnchor
  /\ efm_pm = 1
  /\ checked \in SUBSET GraceNames
  /\ pc = "idle"
  /\ caller = ""
  /\ pattern = << >>
  /\ rel_offset = 0
  /\ additional = 0
  /\ offset = 0
  /\ chunk_bytes = << >>
  /\ read_failed = FALSE
  /\ strategy = ""
  /\ pattern_address = -1
  /\ scan_ret = -1
  /\ derefs = << >>
  /\ reads = << >>
  /\ writes = << >>
  /\ unlocked = << >>
  /\ message = ""
  /\ accel = ""
  /\ last_call = NoCall
  /\ grace_idx = 0
  /\ loop_flag_base = 0
  /\ loop_current = 0
  /\ at_read = 0
  /\ preset_table \in PresetTables
  /\ preset_var = ""
  /\ not_found = << >>
  /\ resume = ""
  /\ NoStats

\* what the preset handlers leave alone
PresetFrame ==
  UNCHANGED << PYMEM_AVAILABLE, opened, image, handles, scanvars, event_flag_man,
               efm_pm, attach_ret, loopvars, preset_table, last_call,
               statvars >>

\* the user picks the preset p in the combobox
SelectPreset(p) ==
  /\ pc = "idle"
  /\ preset_var' = p
  /\ UNCHANGED << memory, mem, checked, logvars, not_found, resume, pc >>
  /\ PresetFrame

\* the button "Apply Preset"
ApplyPreset ==
  /\ pc = "idle"
  /\ LET a == apply_grace_preset(preset_table, preset_var, checked)
     IN  /\ checked' = a.checked
         /\ not_found' = a.not_found
         /\ message' = a.box
         /\ pc' = IF a.box = "" THEN "idle" ELSE "dialog"
  /\ NoLog
  /\ UNCHANGED << memory, mem, preset_var, resume >>
  /\ PresetFrame

\* the button "Unlock Preset", up to its first message box
UnlockPreset ==
  /\ pc = "idle"
  /\ IF preset_var = ""
     THEN /\ message' = "info: select a preset first"
          /\ pc' = "dialog"
          /\ NoLog
          /\ UNCHANGED << memory, mem, checked, not_found, resume >>
     ELSE LET a == apply_grace_preset(preset_table, preset_var, checked)
          IN  /\ checked' = a.checked
              /\ IF a.box # ""
                 THEN \* apply_grace_preset is inside its message box
                      /\ message' = a.box
                      /\ pc' = "dialog"
                      /\ not_found' = a.not_found
                      /\ resume' = "unlock"
                      /\ NoLog
                      /\ UNCHANGED << memory, mem >>
                 ELSE /\ UnlockBody(a.checked)
                      /\ UNCHANGED << not_found, resume >>
  /\ UNCHANGED preset_var
  /\ PresetFrame

\* the box of apply_grace_preset is dismissed inside unlock_preset_graces:
\* apply_grace_preset returns and unlock_selected_graces is called
ResumeUnlock ==
  /\ pc = "dialog"
  /\ resume = "unlock"
  /\ resume' = ""
  /\ not_found' = << >>
  /\ UnlockBody(checked)
  /\ UNCHANGED << checked, preset_var >>
  /\ PresetFrame

PresetNext ==
  \/ \E p \in DOMAIN preset_table : SelectPreset(p)
  \/ ApplyPreset
  \/ UnlockPreset
  \/ ResumeUnlock
  \/ DismissDialog

PresetSpec == PresetInit /\ [][PresetNext]_vars


(***************************************************************************)
(* The stats tab: Preview                                                  *)
(***************************************************************************)
\* the seeds typed into the seed field
MaxSeed == 49
Seeds == 0..MaxSeed

\* the tool as started, not connected, nothing selected
QuietTool ==
  /\ PYMEM_AVAILABLE = TRUE
  /\ memory = NewMemoryManager
  /\ opened = 0
  /\ image = << >>
  /\ handles = {}
  /\ mem = ApiBytes
  /\ event_flag_man = 0
  /\ efm_pm = 0
  /\ checked = {}
  /\ attach_ret = "none"
  /\ pc = "idle"
  /\ caller = ""
  /\ pattern = << >>
  /\ rel_offset = 0
  /\ additional = 0
  /\ offset = 0
  /\ chunk_bytes = << >>
  /\ read_failed = FALSE
  /\ strategy = ""
  /\ pattern_address = -1
  /\ scan_ret = -1
  /\ derefs = << >>
  /\ reads = << >>
  /\ writes = << >>
  /\ unlocked = << >>
  /\ message = ""
  /\ accel = ""
  /\ NoSideState

\* what the handlers of the stats tab leave alone
StatsFrame ==
  UNCHANGED << mmvars, scanvars, guivars, loopvars, presetvars, last_call, mem >>

\* the button "Preview" with a numeric seed in the field
PreviewStats ==
  /\ pc = "idle"
  /\ \E seed \in Seeds :
       LET r == randomize_stats(seed)
       IN  /\ preview' = [ seed |-> seed, all |-> r.all ]
           /\ rng' = r.rng
  /\ UNCHANGED << logvars, pc, fs, run, first_reg, worker, uithread, randomize_btn,
                  runs >>
  /\ StatsFrame

\* the button "Preview" with a seed field that int() rejects
PreviewBadSeed ==
  /\ pc = "idle"
  /\ message' = "error: invalid seed"
  /\ pc' = "dialog"
  /\ NoLog
  /\ UNCHANGED statvars
  /\ StatsFrame

RandInit == QuietTool /\ NoStats

RandNext ==
  \/ PreviewStats
  \/ PreviewBadSeed
  \/ DismissDialog

RandSpec == RandInit /\ [][RandNext]_vars

(***************************************************************************)
(* process_regulation                                                      *)
(***************************************************************************)
\* how a WitchyBND invocation may end: it does its work and writes nothing
\* to stderr; it fails and says so on stderr; it fails with stderr empty
Conv == { "ok", "stderr", "silent" }

\* run_witchybnd: the first component of the pair returned
run_witchybnd(c) == c # "stderr"

\* how a Python step may end
Steps == { "ok", "raise" }

\* how shutil.copy2 may end: the copy is made; it raises before the
\* destination is opened; it raises after the destination was opened for
\* writing, which leaves it cut short
Copy == { "ok", "raise_before", "raise_partial" }

\* the destination of shutil.copy2(src, dst), given what dst held
copy2(src, dst, c) ==
  CASE c = "ok" -> src
    [] c = "raise_before" -> dst
    [] OTHER -> Truncated

\* process_regulation(regulation_path, seed, witchybnd_path) on the files f,
\* meeting env.  The all_stats computed at its first line are stood for by the
\* seed: a file with these stats packed in is File(<<seed>>).
\* Result: the files left, the pair (success, message) returned, and what
\* the run got to.
process_regulation(f, seed, env) ==
  LET left == [ f EXCEPT !.work = @ \cup {seed} ]
      \* work_regulation after the repack: the CharaInitParam in the unpacked
      \* folder holds the new stats when the XML was converted back
      work_regulation ==
        IF env.repack = "ok"
        THEN File(IF env.toparam = "ok" THEN << seed >> ELSE f.reg.stats)
        ELSE IF env.keeps THEN f.reg ELSE Absent
      packed == env.toparam = "ok" /\ env.repack = "ok"
      Fail(files, msg, conv, inj) ==
        [ fs |-> files, success |-> FALSE, message |-> msg, converters_ok |-> conv,
          packed |-> inj /\ packed, injecting |-> inj,
          repack |-> IF inj \/ msg = "Repacked file not found" THEN env.repack ELSE "" ]
      all_ok == env.unpack = "ok" /\ env.toxml = "ok" /\ env.toparam = "ok"
                /\ env.repack = "ok"
      with_backup ==
        IF f.backup.exists THEN left
        ELSE [ left EXCEPT !.backup = copy2(f.reg, f.backup, env.backup_copy) ]
      injected == [ with_backup EXCEPT !.reg = copy2(work_regulation, f.reg, env.inject) ]
      exported == [ injected EXCEPT !.csv = @ \cup {seed} ]
  IN  IF env.setup = "raise" \/ ~f.reg.exists
      THEN Fail(left, "exception", FALSE, FALSE)
      ELSE IF ~run_witchybnd(env.unpack)
      THEN Fail(left, "Unpack failed", FALSE, FALSE)
      ELSE IF env.unpack # "ok"
      THEN Fail(left, "Could not find unpacked folder", FALSE, FALSE)
      ELSE IF ~env.param
      THEN Fail(left, "Could not find CharaInitParam.param", FALSE, FALSE)
      ELSE IF env.toxml # "ok"
      THEN Fail(left, "XML file not created", FALSE, FALSE)
      ELSE IF env.modify = "raise"
      THEN Fail(left, "exception", FALSE, FALSE)
      ELSE IF ~work_regulation.exists
      THEN Fail(left, "Repacked file not found", all_ok, FALSE)
      ELSE IF ~f.backup.exists /\ env.backup_copy # "ok"
      THEN Fail(with_backup, "exception", all_ok, TRUE)
      ELSE IF env.inject # "ok"
      THEN Fail(injected, "exception", all_ok, TRUE)
      ELSE IF env.csv = "raise"
      THEN Fail(injected, "exception", all_ok, TRUE)
      ELSE IF env.cleanup = "raise"
      THEN Fail(exported, "exception", all_ok, TRUE)
      ELSE [ fs |-> [ exported EXCEPT !.work = @ \ {seed} ], success |-> TRUE,
             message |-> "Success!", converters_ok |-> all_ok, packed |-> packed,
             injecting |-> TRUE, repack |-> env.repack ]

\* the seeds process_regulation is called with
RunSeeds == { 1, 2 }

\* process_regulation is called with some seed; what each step meets is
\* drawn only for the steps the run gets to, and a regulation file cut short
\* cannot be unpacked
ProcessRegulation ==
  /\ \E seed \in RunSeeds, setup \in Steps :
     \E unpack \in IF setup = "raise" THEN {"stderr"}
                   ELSE IF fs.reg.whole THEN Conv ELSE Conv \ {"ok"} :
     \E keeps \in IF unpack = "ok" THEN BOOLEAN ELSE {TRUE},
        param \in IF unpack = "ok" THEN BOOLEAN ELSE {TRUE} :
     \E toxml \in IF unpack = "ok" /\ param THEN Conv ELSE {"ok"} :
     \E modify \in IF unpack = "ok" /\ param /\ toxml = "ok" THEN Steps ELSE {"ok"} :
     LET a4 == unpack = "ok" /\ param /\ toxml = "ok" /\ modify = "ok"
     IN
     \E toparam \in IF a4 THEN Conv ELSE {"ok"}, repack \in IF a4 THEN Conv ELSE {"ok"} :
     LET a5 == a4 /\ (repack = "ok" \/ keeps)
     IN
     \E backup_copy \in IF a5 /\ ~fs.backup.exists THEN Copy ELSE {"ok"} :
     \E inject \in IF a5 /\ backup_copy = "ok" THEN Copy ELSE {"ok"} :
     \E csv \in IF a5 /\ backup_copy = "ok" /\ inject = "ok" THEN Steps ELSE {"ok"} :
     \E cleanup \in IF a5 /\ backup_copy = "ok" /\ inject = "ok" /\ csv = "ok"
                    THEN Steps ELSE {"ok"} :
       LET env == [ setup |-> setup, unpack |-> unpack, keeps |-> keeps, param |-> param,
                    toxml |-> toxml, modify |-> modify, toparam |-> toparam,
                    repack |-> repack, backup_copy |-> backup_copy, inject |-> inject,
                    csv |-> csv, cleanup |-> cleanup ]
           r == process_regulation(fs, seed, env)
       IN  /\ fs' = r.fs
           /\ run' = [ success |-> r.success, message |-> r.message, seed |-> seed,
                       before |-> fs.reg, converters_ok |-> r.converters_ok,
                       packed |-> r.packed, repack |-> r.repack ]
           /\ first_reg' = IF first_reg.exists \/ ~r.injecting THEN first_reg ELSE fs.reg
  /\ UNCHANGED << mmvars, scanvars, guivars, logvars, loopvars, presetvars, last_call,
                  mem, pc, rng, worker, uithread, randomize_btn, preview, runs >>

RegInit == QuietTool /\ NoStats

RegNext == ProcessRegulation

RegSpec == RegInit /\ [][RegNext]_vars


(***************************************************************************)
(* The stats tab: "Randomize Stats!" and its worker thread                 *)
(***************************************************************************)
\* Threads are followed call by call through randomize_stats with a table
\* cut down to the first StepClassCount classes and StepPool points each.
StepClassCount == 1
StepPool == 1
StepIds == SubSeq(ClassOrder, 1, StepClassCount)

\* the workers started are followed up to the MaxRuns-th
MaxRuns == 2

\* the seeds typed into the seed field while a worker may be running
WorkSeeds == { 1, 2 }

\* randomize_stats(seed) on the cut-down table, run without interference
Isolated(seed) == RandomizeFrom(random_seed(seed), StepIds, StepPool)

\* a thread enters randomize_stats(seed)
FrameStart(seed) ==
  [ pc |-> "seed", seed |-> seed, class |-> 1, left |-> StepPool, all |-> << >>,
    stats |-> MinStats ]

\* the next call on the generator made by the thread whose frame is fr, with
\* the generator in state g: random.seed(seed), or one random.choice(...)
\* with the bookkeeping up to the next call
FrameStep(fr, g) ==
  IF fr.pc = "seed"
  THEN [ frame |-> [ fr EXCEPT !.pc = "draw" ], rng |-> random_seed(fr.seed) ]
  ELSE LET d == DrawOne([ rng |-> g, stats |-> fr.stats, left |-> fr.left ])
           all == fr.all @@ (StepIds[fr.class] :> WithLevel(d.stats))
       IN  [ rng |-> d.rng,
             frame |->
               IF d.left > 0 THEN [ fr EXCEPT !.stats = d.stats, !.left = d.left ]
               ELSE IF fr.class < Len(StepIds)
               THEN [ fr EXCEPT !.all = all, !.class = @ + 1, !.left = StepPool,
                                !.stats = MinStats ]
               ELSE [ fr EXCEPT !.all = all, !.pc = "done", !.left = 0,
                                !.stats = << >> ] ]

\* a run in which every step succeeds
EnvOk ==
  [ setup |-> "ok", unpack |-> "ok", keeps |-> TRUE, param |-> TRUE, toxml |-> "ok",
    modify |-> "ok", toparam |-> "ok", repack |-> "ok", backup_copy |-> "ok",
    inject |-> "ok", csv |-> "ok", cleanup |-> "ok" ]

\* what the worker's process_regulation may meet: it succeeds, a step
\* fails, an exception is raised
WorkerEnvs ==
  { EnvOk, [ EnvOk EXCEPT !.unpack = "stderr" ], [ EnvOk EXCEPT !.setup = "raise" ] }

\* a slip for finish: the button is enabled again only after a success
finish_OnlyOnSuccess(success) ==
  [ btn |-> IF success THEN "normal" ELSE "disabled",
    box |-> IF success THEN "info: randomization complete" ELSE "error: failed" ]

\* the callback finish of run_process: the state of the button and the
\* message box shown
finish(success) ==
  [ btn |-> "normal",
    box |-> IF success THEN "info: randomization complete" ELSE "error: failed" ]

\* what the handlers and threads of the stats tab leave alone
WorkerFrame ==
  UNCHANGED << mmvars, scanvars, guivars, loopvars, presetvars, last_call, mem,
               first_reg >>

\* the UI thread is in an event loop: the main loop, or that of a message box
InEventLoop == uithread.pc = "none" /\ pc \in {"idle", "dialog"}

\* the button "Randomize Stats!" with a seed, a path or a converter that
\* the handler rejects
RandomizeRejected ==
  /\ pc = "idle" /\ uithread.pc = "none"
  /\ randomize_btn = "normal"
  /\ \E m \in { "error: invalid seed", "error: regulation.bin not found",
                "error: WitchyBND not found" } : message' = m
  /\ pc' = "dialog"
  /\ NoLog
  /\ UNCHANGED << fs, run, rng, worker, uithread, randomize_btn, preview, runs >>
  /\ WorkerFrame

\* the button "Randomize Stats!": the preview is refreshed, the button is
\* disabled and the worker thread is started
RandomizeClick ==
  /\ pc = "idle" /\ uithread.pc = "none"
  /\ randomize_btn = "normal"
  /\ runs < MaxRuns
  /\ runs' = runs + 1
  /\ \E seed \in WorkSeeds :
       /\ preview' = [ seed |-> seed, all |-> Isolated(seed).all ]
       /\ rng' = Isolated(seed).rng
       /\ worker' = FrameStart(seed)
  /\ randomize_btn' = "disabled"
  /\ UNCHANGED << fs, run, uithread, logvars, pc >>
  /\ WorkerFrame

\* the worker thread makes its next call on the generator
WorkerStep ==
  /\ worker.pc \in {"seed", "draw"}
  /\ LET n == FrameStep(worker, rng)
     IN  worker' = n.frame /\ rng' = n.rng
  /\ UNCHANGED << fs, run, uithread, randomize_btn, preview, runs, logvars, pc >>
  /\ WorkerFrame

\* the worker runs the rest of process_regulation and schedules finish
WorkerRegulate ==
  /\ worker.pc = "done"
  /\ \E env \in WorkerEnvs :
       LET r == process_regulation(fs, worker.seed, env)
       IN  /\ fs' = r.fs
           /\ run' = [ success |-> r.success, message |-> r.message,
                       seed |-> worker.seed, before |-> fs.reg,
                       converters_ok |-> r.converters_ok, packed |-> r.packed,
                       repack |-> r.repack ]
  /\ worker' = [ worker EXCEPT !.pc = "finish" ]
  /\ UNCHANGED << rng, uithread, randomize_btn, preview, runs, logvars, pc >>
  /\ WorkerFrame

\* the event loop runs the callback finish
Finish ==
  /\ worker.pc = "finish"
  /\ InEventLoop
  /\ randomize_btn' = finish(run.success).btn
  /\ message' = finish(run.success).box
  /\ pc' = "dialog"
  /\ worker' = NoFrame
  /\ NoLog
  /\ UNCHANGED << fs, run, rng, uithread, preview, runs >>
  /\ WorkerFrame

\* the button "Preview": the UI thread enters randomize_stats(seed)
PreviewClick ==
  /\ pc = "idle" /\ uithread.pc = "none"
  /\ \E seed \in WorkSeeds : uithread' = FrameStart(seed)
  /\ UNCHANGED << fs, run, rng, worker, randomize_btn, preview, runs, logvars, pc >>
  /\ WorkerFrame

\* the UI thread makes its next call on the generator; after the last one
\* preview_stats shows the result and returns
PreviewStep ==
  /\ uithread.pc \in {"seed", "draw"}
  /\ LET n == FrameStep(uithread, rng)
     IN  /\ rng' = n.rng
         /\ IF n.frame.pc = "done"
            THEN /\ preview' = [ seed |-> uithread.seed, all |-> n.frame.all ]
                 /\ uithread' = NoFrame
            ELSE /\ uithread' = n.frame
                 /\ UNCHANGED preview
  /\ UNCHANGED << fs, run, worker, randomize_btn, runs, logvars, pc >>
  /\ WorkerFrame

WorkerInit == QuietTool /\ NoStats

WorkerNext ==
  \/ RandomizeRejected
  \/ RandomizeClick
  \/ WorkerStep
  \/ WorkerRegulate
  \/ Finish
  \/ PreviewClick
  \/ PreviewStep
  \/ DismissDialog

WorkerSpec == WorkerInit /\ [][WorkerNext]_vars

\* the worker thread and the UI thread keep running; the event loop serves
\* its queue in order, so that a callback scheduled with after is run once
\* the UI thread is back in the loop, however often the user clicks
WorkerFairSpec ==
  /\ WorkerSpec
  /\ WF_vars(WorkerStep)
  /\ WF_vars(WorkerRegulate)
  /\ WF_vars(PreviewStep)
  /\ SF_vars(Finish)

(***************************************************************************)
(* Properties of unlock_selected_graces                                    *)
(***************************************************************************)
\* the for loop of unlock_selected_graces has run and its message box is up
UnlockRan == pc = "dialog" /\ message \in {"success", "info: no graces selected"}

\* names of the log entries of a call log
LogNames(log) == [k \in 1..Len(log) |-> log[k].name]

\* the requested known flags, in the order the loop visits them
Requested == SeqMinus(grace_checkboxes, GraceNames \ (checked \cap DOMAIN KNOWN_GRACES))

\* C1: partial-failure isolation.  Whatever subset of the byte writes fails,
\* unlock issues a write for every requested known flag, in order, and the
\* list `unlocked` holds exactly the requested flags whose write succeeded.
C1_PartialFailureIsolation ==
  UnlockRan =>
    /\ LogNames(writes) = Requested
    /\ unlocked = SeqMinus(Requested, {writes[k].name : k \in {j \in 1..Len(writes) : ~writes[j].ok}})

\* three flags requested, the write of the second fails, the other two succeed
C1_Witness ==
  /\ UnlockRan
  /\ Len(writes) = 3
  /\ writes[1].ok /\ ~writes[2].ok /\ writes[3].ok
  /\ unlocked = << writes[1].name, writes[3].name >>

\* C2: unlocking only ever sets bits: no step of the tool clears a bit that
\* was set in a flag byte of the target.
C2_NoBitCleared ==
  [][\A a \in FlagAddrs : BitsOf(mem[a]) \subseteq BitsOf(mem'[a])]_vars

\* C3: a flag whose read_byte failed gets no write_byte call and is not
\* reported as unlocked.
C3_ReadFailureSkipsFlag ==
  UnlockRan =>
    \A k \in 1..Len(reads) :
       ~reads[k].ok =>
          /\ reads[k].name \notin SeqToSet(LogNames(writes))
          /\ reads[k].name \notin SeqToSet(unlocked)

\* names whose read / write failed in the unlock that has just run
FailedReads == {reads[k].name : k \in {j \in 1..Len(reads) : ~reads[j].ok}}
FailedWrites == {writes[k].name : k \in {j \in 1..Len(writes) : ~writes[j].ok}}

\* C4: bit idempotence.  Once unlock has run on the selected flags, running
\* it again on the same flags (each read and write faring as it did the first
\* time; in particular with none failing) leaves every flag byte as it is.
C4_UnlockIdempotent ==
  UnlockRan =>
    UnlockAll(memory, mem, FlagBase, checked, FailedReads, FailedWrites).mem = mem

\* unlock set bit 2 of a byte that had bits 0 and 7 set, nothing failing
C4_Witness ==
  /\ UnlockRan
  /\ unlocked = << "The First Step" >>
  /\ FailedReads = {} /\ FailedWrites = {}
  /\ mem[FlagBase + 3262] = 133

(***************************************************************************)
(* Properties of the pointer chain and of the session                      *)
(***************************************************************************)
\* C9: chain-break detection.  With no anchor no pointer is read; when the
\* read at the anchor yields 0 it is the only read: the second dereference
\* is not made, the operation reports failure and writes nothing.
C9_ChainBreakDetection ==
  /\ (derefs # <<>> => derefs[1].addr = event_flag_man /\ event_flag_man # 0)
  /\ ((derefs # <<>> /\ derefs[1].value = 0) =>
         /\ Len(derefs) = 1
         /\ message = "error: could not access event flags"
         /\ writes = <<>>)
  /\ (Len(derefs) = 2 => derefs[2].addr = derefs[1].value + 40)
  /\ ((pc = "dialog" /\ is_attached(memory) /\ event_flag_man = 0
         /\ message = "error: could not access event flags") => derefs = <<>>)

\* the first dereference of a scanned anchor yielded 0
C9_Witness ==
  /\ pc = "dialog"
  /\ event_flag_man # 0
  /\ Len(derefs) = 1 /\ derefs[1].value = 0
  /\ message = "error: could not access event flags"

\* C10: a flag byte is written only in a session attached by a successful
\* attach, with an anchor that a scan of that same session produced.
C10_WriteOnlyInScannedSession ==
  writes # <<>> =>
    /\ attach_ret = TRUE
    /\ event_flag_man # 0
    /\ efm_pm = memory.pm


(***************************************************************************)
(* Properties of attach and detach                                         *)
(***************************************************************************)
\* C11: only one attached session exists at a time: at most one process
\* handle opened by attach is unclosed, whatever attach met on the way.
C11_OneSessionAtATime == Cardinality(handles) <= 1

\* C12: when the process was opened but its module was not resolved, attach
\* has returned the session (True) with module_size 0, not a failure.
C12_AttachedNotScannable ==
  (is_attached(memory) /\ memory.module_size = 0) => attach_ret = TRUE

\* the candidate list the claim describes for the preferred name pn
ExpectedCandidates(pn) ==
  IF pn # "" THEN << pn, "eldenring.exe", "start_protected_game.exe" >>
  ELSE << "eldenring.exe", "start_protected_game.exe" >>

\* attach has been called directly and has gone through its candidates
AttachRan == last_call.op = "attach" /\ PYMEM_AVAILABLE

\* C13: attach tries the preferred name first (if given), then the known
\* names, strictly in that order; it goes on past a candidate that is not
\* present (or fails in another retriable way), and it returns True at the
\* first candidate that succeeds, trying none after it.
C13_CandidateOrder ==
  AttachRan =>
    LET c == last_call
        exp == ExpectedCandidates(c.arg)
        n == Len(c.tried)
    IN  /\ n >= 1 /\ n <= Len(exp)
        /\ c.tried = SubSeq(exp, 1, n)
        /\ \A k \in 1..(n - 1) : c.out[k] # "Ok"
        /\ \A k \in 1..n : (c.out[k] = "NotFound" /\ k < Len(exp)) => k < n
        /\ (c.ret = TRUE) <=> (c.out[n] = "Ok")
        /\ (c.ret = TRUE) => (is_attached(memory) /\ memory.process_name = exp[n])
        /\ (\E k \in 1..Len(exp) :
              c.out[k] = "Ok" /\ \A j \in 1..(k - 1) : c.out[j] # "Denied")
             => c.ret = TRUE

\* the preferred name and the first known name are not present, the second
\* known name succeeds
C13_Witness ==
  /\ AttachRan
  /\ last_call.arg = "game.exe"
  /\ last_call.out = << "NotFound", "NotFound", "Ok" >>
  /\ last_call.tried = << "game.exe", "eldenring.exe", "start_protected_game.exe" >>
  /\ memory.process_name = "start_protected_game.exe"

\* C14: a candidate that is present but cannot be opened ends attach at
\* once: it returns False with the could-not-open error and no candidate
\* after it is tried.
C14_AccessDeniedStops ==
  AttachRan =>
    \A k \in 1..Len(last_call.out) :
       (last_call.out[k] = "Denied" /\ \A j \in 1..(k - 1) : last_call.out[j] # "Ok") =>
          /\ Len(last_call.tried) = k
          /\ last_call.ret = FALSE
          /\ attach_ret = FALSE
          /\ memory.last_error = "Could not open process"

\* the preferred name is not present, access to eldenring.exe is denied
C14_Witness ==
  /\ AttachRan
  /\ last_call.out = << "NotFound", "Denied", "NotFound" >>
  /\ last_call.tried = << "game.exe", "eldenring.exe" >>
  /\ last_call.ret = FALSE

\* C15: detach of a manager that is not attached changes nothing and reports
\* nothing: the state after detach; detach is the state after one detach.
C15_DetachIdempotent ==
  [][ (last_call'.op = "detach" /\ ~is_attached(memory)) =>
        /\ memory' = memory
        /\ handles' = handles
        /\ opened' = opened ]_vars

\* detach was called twice in a row after a session had been opened
C15_Witness ==
  /\ last_call.op = "detach" /\ last_call.prev = "detach"
  /\ opened > 0
  /\ ~is_attached(memory)
  /\ handles = {}

(***************************************************************************)
(* Properties of the reads and writes                                      *)
(***************************************************************************)
MemOps ==
  { "read_bytes", "read_int64", "read_int32", "read_byte", "write_bytes", "write_byte" }

\* ret is a value the call op may return when it succeeds
IsSuccessResult(op, ret) ==
  CASE op = "read_bytes" -> Len(ret) = 2
    [] op \in { "read_int64", "read_int32" } -> ret \in Int
    [] op = "read_byte" -> ret \in 0..255
    [] OTHER -> ret = TRUE

\* C17: a read or write that fails (the system call fails, or no session is
\* open) returns a result that no successful call returns, and the failure
\* is identified in last_error.
C17_FailuresAreTyped ==
  ( /\ last_call.op \in MemOps
    /\ (~is_attached(memory) \/ ~last_call.ok) ) =>
      /\ ~IsSuccessResult(last_call.op, last_call.ret)
      /\ memory.last_error \in { "Read failed", "Write failed", "Not attached" }

(***************************************************************************)
(* Properties of the scan                                                  *)
(***************************************************************************)
\* the UI thread keeps running: a call that is due is made, a loop that is
\* running takes its next iteration
ScanFairSpec == ScanSpec /\ WF_vars(ScanAob) /\ WF_vars(ManualScanStep)

\* the pattern pat occurs in img at offset k (0-based): every token that is
\* not a wildcard equals the byte under it
Occurs(img, pat, k) ==
  /\ k >= 0
  /\ k + Len(pat) <= Len(img)
  /\ \A j \in 1..Len(pat) : pat[j].wild \/ img[k + j] = pat[j].hex

Occurrences(img, pat) == {k \in 0..Len(img) : Occurs(img, pat, k)}

\* scan_aob has returned and its result came from _manual_scan_aob
ManualReturned == pc = "idle" /\ caller = "scan" /\ strategy = "manual"

\* C5: the manual chunked scan terminates, and when no chunk yields a match
\* it returns 0 with last_error "Pattern not found in module memory".
C5_ManualScanTerminates ==
  (pc = "manual") ~>
     (/\ pc = "idle"
      /\ (pattern_address = -1 =>
            /\ scan_ret = 0
            /\ memory.last_error = "Pattern not found in module memory"))

C7_ChunkBoundaryComplete ==
  LET pp == ParsePattern(pattern)
      whole == SearchChunk(image, pp.pattern_bytes, pp.mask)
  IN  ( /\ strategy = "manual" /\ caller = "scan" /\ ~read_failed
        /\ Len(image) > CHUNK_SIZE
        /\ Cardinality(Occurrences(image, pattern)) = 1 ) =>
        /\ pc = "manual" => offset <= whole
        /\ pc = "idle" => pattern_address = memory.module_base + whole

\* the single occurrence straddles the boundary of the first chunk
C7_Witness ==
  /\ ManualReturned /\ ~read_failed
  /\ Len(image) > CHUNK_SIZE
  /\ Cardinality(Occurrences(image, pattern)) = 1
  /\ pattern_address - memory.module_base < CHUNK_SIZE
  /\ pattern_address - memory.module_base + Len(pattern) > CHUNK_SIZE

\* the four bytes of the two's complement little-endian encoding of r
EncodeInt32LE(r) ==
  << r % 256, (r \div 256) % 256, (r \div 65536) % 256, (r \div 16777216) % 256 >>

\* C8: relative-offset resolution.  In either strategy, a scan that found the
\* pattern at P with rel_offset in [0, patternLength - 4] returns
\* P + additional + r, r being the signed little-endian 32-bit value stored
\* at P + rel_offset; the manual scan never lacks the four bytes.
C8_RelativeOffsetResolution ==
  ( /\ pc = "idle" /\ caller = "scan" /\ pattern_address # -1
    /\ rel_offset <= Len(pattern) - 4 ) =>
    LET k == pattern_address - memory.module_base + rel_offset
        r == scan_ret - pattern_address - additional
    IN  /\ memory.last_error # "Manual scan failed"
        /\ EncodeInt32LE(r) = SubSeq(image, k + 1, k + 4)

\* the anchor pattern found by the manual scan with rel_offset 3,
\* additional 7 and the value 0x100 stored at P + 3
C8_Witness ==
  /\ ManualReturned
  /\ pattern = EVENT_FLAG_MAN_AOB /\ rel_offset = 3 /\ additional = 7
  /\ pattern_address # -1
  /\ scan_ret = pattern_address + 7 + 256

\* the values of last_error that _manual_scan_aob sets when it returns 0
ManualErrors == { "Pattern not found in module memory", "Manual scan failed" }

\* C16: when an exception is raised inside the accelerated scan, scan_aob
\* enters the manual chunked scan with the same pattern, rel_offset and
\* additional, and what it returns is the manual scan's result: the resolved
\* address of the match, or 0 with the manual scan's own error; the
\* accelerated path's error is not what the caller gets.
C16_FallbackToManual ==
  [][ /\ (pc = "call" /\ accel' = "raised") =>
           /\ pc' = "manual" /\ strategy' = "manual"
           /\ pattern' = pattern /\ rel_offset' = rel_offset
           /\ additional' = additional
           /\ offset' = 0
      /\ (pc = "manual" /\ pc' = "idle" /\ caller = "scan") =>
           /\ accel' = "raised" /\ strategy' = "manual"
           /\ pattern' = pattern /\ rel_offset' = rel_offset
           /\ additional' = additional
           /\ IF pattern_address' = -1
              THEN scan_ret' = 0 /\ memory'.last_error \in ManualErrors
              ELSE LET k == pattern_address' - memory.module_base + rel_offset
                   IN  \/ scan_ret' = 0 /\ memory'.last_error = "Manual scan failed"
                       \/ /\ Occurs(image, pattern, pattern_address' - memory.module_base)
                          /\ EncodeInt32LE(scan_ret' - pattern_address' - additional)
                               = SubSeq(image, k + 1, k + 4) ]_vars

\* the accelerated scan raised and the manual scan resolved the six-token
\* pattern to P + additional - 16
C16_Witness ==
  /\ ManualReturned
  /\ accel = "raised"
  /\ pattern = ShortRelPattern /\ rel_offset = 1
  /\ pattern_address # -1
  /\ scan_ret = pattern_address + additional - 16

(***************************************************************************)
(* Properties of the race with the target                                  *)
(***************************************************************************)
\* C18: last writer wins.  A write of unlock that succeeds stores
\* (the value it read) | (1 << bit) in the flag's byte, whatever the target
\* stored there since the read, and touches no other byte; every bit the byte
\* had when unlock read it is set after the write.
C18_LastWriterWins ==
  [][ (pc = "write" /\ pc' = "loop" /\ writes'[Len(writes')].ok) =>
        LET grace_name == grace_checkboxes[grace_idx]
            addr == loop_flag_base + KNOWN_GRACES[grace_name][1]
            bit == KNOWN_GRACES[grace_name][2]
        IN  /\ BitsOf(mem'[addr]) = BitsOf(loop_current) \cup {bit}
            /\ \A a \in FlagAddrs \ {addr} : mem'[a] = mem[a]
            /\ BitsOf(at_read) \subseteq BitsOf(mem'[addr]) ]_vars

(***************************************************************************)
(* Properties of the presets and of the registry                           *)
(***************************************************************************)
\* C19: a preset that lists a name the registry does not have is reported
\* and does not stop the others: applying it sets exactly the checkboxes of
\* the preset's names that the registry has and shows the names it does not
\* have; unlock_preset_graces then issues a write for every one of the
\* checkboxes set.
C19_UnknownPresetName ==
  [][ /\ (pc = "idle" /\ preset_var # "" /\ preset_var' = preset_var) =>
           LET names == preset_table[preset_var]
               unknown == SeqMinus(names, DOMAIN KNOWN_GRACES)
           IN  /\ checked' = SeqToSet(names) \cap DOMAIN KNOWN_GRACES
               /\ unknown # << >> =>
                    /\ pc' = "dialog"
                    /\ message' = "warning: preset graces not found"
                    /\ not_found' = unknown
      /\ (pc = "dialog" /\ resume = "unlock") =>
           /\ checked' = checked
           /\ UnlockRan' =>
                LogNames(writes') = SeqMinus(grace_checkboxes, GraceNames \ checked)
    ]_vars

\* the preset lists a name the registry does not have between two it has;
\* both were unlocked
C19_Witness ==
  /\ UnlockRan
  /\ preset_var = "Early Game"
  /\ SeqMinus(preset_table[preset_var], DOMAIN KNOWN_GRACES) = << "Church of Ellah" >>
  /\ unlocked = << "Church of Elleh", "The First Step" >>

\* every name is listed in one region only, and the flattened table gives
\* each name the pair its region lists
RegistryLossless ==
  /\ \A r1 \in Regions, r2 \in Regions :
       r1 # r2 => DOMAIN GRACES_BY_REGION[r1] \cap DOMAIN GRACES_BY_REGION[r2] = {}
  /\ \A r \in Regions : \A n \in DOMAIN GRACES_BY_REGION[r] :
       n \in DOMAIN KNOWN_GRACES /\ KNOWN_GRACES[n] = GRACES_BY_REGION[r][n]
  /\ DOMAIN KNOWN_GRACES = UNION { DOMAIN GRACES_BY_REGION[r] : r \in Regions }
  /\ KNOWN_GRACES["The First Step"] = << 3262, 2 >>

\* C20: registry lookup is lossless: names are unique across the registry,
\* the flattened lookup returns for every name the (offset, bit) pair listed
\* in its region ('The First Step' -> (0xCBE, 2)), and that pair is what
\* unlock writes with.
C20_RegistryLossless ==
  /\ RegistryLossless
  /\ UnlockRan =>
       \A k \in 1..Len(writes) :
         \E r \in Regions :
           /\ writes[k].name \in DOMAIN GRACES_BY_REGION[r]
           /\ writes[k].addr = FlagBase + GRACES_BY_REGION[r][writes[k].name][1]
           /\ GRACES_BY_REGION[r][writes[k].name][2] \in BitsOf(writes[k].value)

\* 'The First Step' was unlocked through byte 0xCBE, bit 2
C20_Witness ==
  /\ UnlockRan
  /\ \E k \in 1..Len(writes) :
       /\ writes[k].name = "The First Step"
       /\ writes[k].addr = FlagBase + 3262
       /\ writes[k].ok
       /\ 2 \in BitsOf(mem[FlagBase + 3262])

(***************************************************************************)
(* Properties of the unlock handlers as a whole                            *)
(***************************************************************************)
\* the message boxes of unlock_selected_graces
UnlockMessages ==
  { "error: not connected", "error: could not access event flags", "success",
    "info: no graces selected" }

\* the pointer chain did not yield a base: there is no anchor, or the last
\* pointer read made yielded 0
BaseUnresolved ==
  \/ event_flag_man = 0
  \/ derefs # << >> /\ derefs[Len(derefs)].value = 0

\* C21: when the flag base cannot be resolved (no anchor, a null first
\* dereference, or a null result at the final step) unlock aborts as a
\* whole: whatever is selected it reads and writes no flag byte, leaves the
\* target's bytes alone and shows the error box.
C21_UnresolvedBaseAborts ==
  [][ ( /\ pc = "idle" /\ pc' = "dialog"
        /\ is_attached(memory)
        /\ message' \in UnlockMessages
        /\ BaseUnresolved' ) =>
      ( /\ message' = "error: could not access event flags"
        /\ reads' = << >>
        /\ writes' = << >>
        /\ unlocked' = << >>
        /\ mem' = mem ) ]_vars

\* every flag is selected and the read at the final step yielded 0
C21_Witness ==
  /\ pc = "dialog"
  /\ message = "error: could not access event flags"
  /\ checked = GraceNames
  /\ Len(derefs) = 2
  /\ derefs[2].value = 0

\* C22: the value attach returns agrees with the session: after attach has
\* returned False the manager is not attached and its process id, module
\* base and module size are 0; after it has returned True the manager is
\* attached and its module size is positive.
C22_AttachReturnAgrees ==
  last_call.op = "attach" =>
    /\ last_call.ret = FALSE =>
         /\ ~is_attached(memory)
         /\ memory.process_id = 0
         /\ memory.module_base = 0
         /\ memory.module_size = 0
    /\ last_call.ret = TRUE =>
         /\ is_attached(memory)
         /\ memory.module_size > 0

\* the registry names whose pair is (off, bit)
FlagsAt(off, bit) == { n \in DOMAIN KNOWN_GRACES : KNOWN_GRACES[n] = << off, bit >> }

\* C23: unlocking the selected flags changes only bits that belong to
\* selected flags: every bit of a flag byte that a step changes is the bit
\* of a registry name, and every registry name with that bit is selected.
C23_OnlySelectedBitsChange ==
  [][ \A a \in FlagAddrs : \A b \in 0..7 :
        ((b \in BitsOf(mem[a])) # (b \in BitsOf(mem'[a]))) =>
           /\ FlagsAt(a - FlagBase, b) # {}
           /\ FlagsAt(a - FlagBase, b) \subseteq checked ]_vars

\* C24: "Unlock Preset" writes exactly the preset's flags.  Once
\* unlock_preset_graces has reached its last message box, the names a write
\* was attempted for are the names of the chosen preset that the registry
\* has, whatever checkboxes were set before (when unlock aborted with an
\* error box there is no write at all).
C24_UnlockPresetWritesPreset ==
  (pc = "dialog" /\ resume = "" /\ message \in UnlockMessages) =>
    IF UnlockRan
    THEN SeqToSet(LogNames(writes)) =
           SeqToSet(preset_table[preset_var]) \cap DOMAIN KNOWN_GRACES
    ELSE writes = << >>

\* the preset of the source was unlocked: a write for both of its flags,
\* none for the third checkbox, which is no longer set
C24_Witness ==
  /\ UnlockRan
  /\ preset_table = GRACE_PRESETS
  /\ preset_var = "Early Game"
  /\ SeqToSet(LogNames(writes)) = { "The First Step", "Church of Elleh" }
  /\ "West Capital Rampart" \notin checked

(***************************************************************************)
(* Properties of the stat randomizer                                       *)
(***************************************************************************)
\* the sum of the attributes keys[k..] of stats
RECURSIVE SumFrom(_, _, _)
SumFrom(stats, keys, k) ==
  IF k > Len(keys) THEN 0 ELSE stats[keys[k]] + SumFrom(stats, keys, k + 1)

\* C30: stat budget of randomize_stats.  For every seed the result has the
\* ten classes, and for each class the eight attributes are at least
\* MIN_STAT (6) and sum to exactly TOTAL_STATS (88), and level is
\* TARGET_LEVEL (9).
C30_StatBudget ==
  preview # NoPreview =>
    /\ DOMAIN preview.all = DOMAIN PLAYER_CLASSES
    /\ Cardinality(DOMAIN PLAYER_CLASSES) = 10
    /\ \A c \in DOMAIN preview.all :
         LET stats == preview.all[c]
         IN  /\ DOMAIN stats = SeqToSet(StatKeys) \cup {"level"}
             /\ Len(StatKeys) = 8
             /\ \A k \in SeqToSet(StatKeys) : stats[k] >= 6
             /\ SumFrom(stats, StatKeys, 1) = 88
             /\ stats["level"] = 9

\* a preview in which some class has an attribute left at the minimum and
\* another raised well above it
C30_Witness ==
  /\ preview # NoPreview
  /\ \E c \in DOMAIN preview.all :
       /\ \E k \in SeqToSet(StatKeys) : preview.all[c][k] = 6
       /\ \E k \in SeqToSet(StatKeys) : preview.all[c][k] >= 14

\* a process_regulation call has returned
RunReturned == run.message # ""

\* C25: process_regulation leaves the regulation file as it was whenever it
\* returns failure: after a run that returned success = False the file
\* holds what it held before the call.
C25_FailureLeavesRegulation ==
  (RunReturned /\ ~run.success) => fs.reg = run.before

\* C26: success is reported only if the randomized stats were packed into
\* the injected file: a run returns success = True only when every converter
\* invocation succeeded, the regulation file then holds the stats of the run's
\* seed, and a failed repack ends the run with 'Repacked file not found'.
C26_SuccessMeansPacked ==
  /\ (RunReturned /\ run.success) =>
       /\ run.converters_ok
       /\ fs.reg = File(<< run.seed >>)
  /\ (RunReturned /\ run.repack \in {"stderr", "silent"}) =>
       /\ ~run.success
       /\ run.message = "Repacked file not found"

\* C27: the backup is written at most once: a step never changes a backup
\* that exists, and a backup that exists holds what the regulation file
\* held before the first run that reached the injection step.
C27_BackupWrittenOnce ==
  [][ /\ fs.backup.exists => fs'.backup = fs.backup
      /\ fs'.backup.exists => fs'.backup = first_reg' ]_vars


\* C28: whatever the UI thread does meanwhile, the stats a run with seed s
\* has drawn when it goes on to apply and export them are those of
\* randomize_stats(s) run on its own, which are those Preview shows for s.
C28_SeedDeterminesRun ==
  worker.pc \in {"done", "finish"} => worker.all = Isolated(worker.seed).all

\* C29: while a worker runs the button is disabled, so that no second worker
\* is started, and whether process_regulation succeeds, fails or raises the
\* button is enabled again.
C29_OneWorkerButtonRestored ==
  /\ [][ /\ worker.pc # "none" => randomize_btn = "disabled"
         /\ worker'.pc # "none" => randomize_btn' = "disabled"
         /\ (worker'.pc = "seed" /\ worker' # worker) => worker.pc = "none" ]_vars
  /\ (randomize_btn = "disabled") ~> (randomize_btn = "normal")

\* a failed run has ended and the button is enabled again
C29_Witness ==
  /\ run.message # "" /\ ~run.success
  /\ worker.pc = "none"
  /\ randomize_btn = "normal"
  /\ message = "error: failed"

====
